---------------------------- MODULE Spec2Model ----------------------------
(***************************************************************************)
(* Model of the IPMI power sampling engine: src/get_power_from_ipmi.py and *)
(* src/ipmi.py (the two engine variants), and of its window, src/gui.py.   *)
(*                                                                         *)
(* Text is modelled as sequences of one-character strings, so that the     *)
(* regular expressions of the scanner are computed, not assumed.           *)
(*                                                                         *)
(* Thirteen specifications share the module:                               *)
(*   ScoreSpec       the scanner's name scoring applied to generated names;*)
(*   RunnerSpec      one invocation of sdr_elist_stream against one        *)
(*                   subordinate process, with a clock in polling          *)
(*                   intervals;                                            *)
(*   FairRunnerSpec  RunnerSpec with the runner's thread scheduled fairly; *)
(*   Spec            the orchestrator of main: pool, retry loop, drain and *)
(*                   the summary sheets;                                   *)
(*   EngineSpec      RunnerSpec and Spec side by side, for statements made *)
(*                   of results wherever they are produced;                *)
(*   FoldSpec        the drain loop's sums in double precision;            *)
(*   ScenarioSpec    main on an inventory of three hosts of one rack;      *)
(*   ControllerSpec  the retry loop of one host with the rc and stderr of  *)
(*                   every call;                                           *)
(*   ParseSpec       the scan body applied to generated value fields;      *)
(*   SelectionSpec   RunnerSpec against a process whose lines can tie;     *)
(*   PairSpec        the retry loops of the two variants on the same       *)
(*                   process behaviours;                                   *)
(*   GuiSpec         the window: run, stop, the runner thread, the poll;   *)
(*   FairGuiSpec     GuiSpec with the threads and the event loop scheduled.*)
(***************************************************************************)
EXTENDS Integers, Sequences, FiniteSets, TLC

VARIABLES
    engine,      \* which engine variant runs: "get_power" or "ipmi"
    \* ---- ScoreSpec
    sname,       \* the sensor name under test, as a sequence of piece indices
    sphase,      \* "input" | "scored"
    sscore,      \* name_score of the name
    sbest,       \* best candidate after scanning one line with that name
    sline,       \* ParseSpec: the line under test, as layout and value pieces
    sparsed,     \* ParseSpec: what the scan body parsed from the line
    \* ---- RunnerSpec: configuration and clock
    os_name,        \* os.name: "posix" or "nt"
    total_timeout,  \* args.timeout, in polling intervals
    now,            \* time.monotonic(), in polling intervals (time.sleep(0.02))
    \* ---- RunnerSpec: the subordinate process
    pstate,      \* "none" | "running" | "exited"
    exit_code,   \* its exit status once exited
    out_open,    \* the process holds the write end of its stdout pipe
    err_open,    \* the process holds the write end of its stderr pipe
    pipe,        \* stdout bytes written and not yet read: line ids and NL
    perr,        \* stderr text written
    pmid,        \* the process is in the middle of a line (no newline yet)
    pcount,      \* lines the process has started to write
    \* ---- RunnerSpec: sdr_elist_stream
    rpc,         \* position of the runner in sdr_elist_stream
    deadline,    \* deadline = time.monotonic() + total_timeout
    buf,         \* buf: bytes read and not yet split into lines
    lines,       \* lines: number of lines scanned
    bytes_read,  \* bytes_read
    best,        \* best
    rc,          \* rc = proc.poll() after the loop
    ret,         \* the returned (watts, status, log)
    scanned,     \* history: the lines scanned, in order
    \* ---- Spec: main and the pool
    workers,     \* args.workers
    retries,     \* args.retries
    items,       \* items: the host records of the inventory
    mpc,         \* position of main: "submit" | "drain" | "done" | "KeyError"
    queue,       \* the pool's work queue: submitted tasks no thread has taken
    nthreads,    \* worker threads the pool has started
    task,        \* per item, the state of its query_host / query_one task
    yielded,     \* the futures as_completed has yielded
    detail_rows, \* detail_rows
    rack_sum,    \* rack_sum
    room_sum,    \* room_sum
    df_detail,   \* df_detail, the rows of the detail sheet
    df_rack,     \* df_rack, the rack_summary sheet of get_power_from_ipmi.py
    df_room,     \* df_room, the room_summary sheet of get_power_from_ipmi.py
    df_summary,  \* df_summary, the summary sheet of ipmi.py
    df_in,       \* the input sheet: whether the file exists, and its columns
    exit_status, \* what main returned, None while it runs
    \* ---- GuiSpec: the window of gui.py
    running,     \* self.running
    stop_flag,   \* self.stop_flag is set
    log_queue,   \* self.log_queue
    txt_log,     \* the lines of the log view
    poll_job,    \* self.poll_job: 0 for None, else the run whose poll it names
    timers,      \* the runs that have a poll callback pending in the event loop
    polling,     \* the run whose poll callback the main thread is inside, 0 if none
    btn_run,     \* state of the run button; the stop button has the other state
    process,     \* self.process: 0 for None, else the run that assigned it
    thread,      \* per run, the position of its runner thread
    engproc,     \* per run, the engine subprocess: state, lines written, lines unread
    nruns        \* runs started

scoreVars == <<sname, sphase, sscore, sbest, sline, sparsed>>

procVars == <<pstate, exit_code, out_open, err_open, pipe, perr, pmid, pcount>>

runnerVars == <<os_name, total_timeout, now, rpc, deadline, buf, lines, bytes_read, best, rc, ret, scanned>>

orchVars == <<workers, retries, items, mpc, queue, nthreads, task, yielded,
              detail_rows, rack_sum, room_sum, df_detail, df_rack, df_room, df_summary, df_in, exit_status>>

guiVars == <<running, stop_flag, log_queue, txt_log, poll_job, timers, polling, btn_run,
             process, thread, engproc, nruns>>

vars == <<engine, scoreVars, procVars, runnerVars, orchVars, guiVars>>

Engines == {"get_power", "ipmi"}

-----------------------------------------------------------------------------
(* Characters and the character classes of Python's re module, restricted  *)
(* to the ASCII alphabet the model writes.                                 *)

UpperChars == <<"A","B","C","D","E","F","G","H","I","J","K","L","M",
                "N","O","P","Q","R","S","T","U","V","W","X","Y","Z">>

LowerChars == <<"a","b","c","d","e","f","g","h","i","j","k","l","m",
                "n","o","p","q","r","s","t","u","v","w","x","y","z">>

DigitChars == {"0","1","2","3","4","5","6","7","8","9"}

SpaceChars == {" ", "\t", "\r", "\n"}

UpperSet == {UpperChars[i] : i \in 1..26}

LowerSet == {LowerChars[i] : i \in 1..26}

LowerMap == [c \in UpperSet |-> LowerChars[CHOOSE i \in 1..26 : UpperChars[i] = c]]

\* str.lower() on one character
Lower(c) == IF c \in UpperSet THEN LowerMap[c] ELSE c

\* str.lower(); a pattern compiled with re.IGNORECASE is matched against it
LowerStr(s) == [i \in 1..Len(s) |-> Lower(s[i])]

\* \w
IsWordChar(c) == c = "_" \/ c \in DigitChars \/ c \in UpperSet \/ c \in LowerSet

RECURSIVE LStrip(_)
LStrip(s) == IF s # <<>> /\ Head(s) \in SpaceChars THEN LStrip(Tail(s)) ELSE s

RECURSIVE RStrip(_)
RStrip(s) == IF s # <<>> /\ s[Len(s)] \in SpaceChars THEN RStrip(SubSeq(s, 1, Len(s) - 1)) ELSE s

\* str.strip()
Strip(s) == RStrip(LStrip(s))

\* the literal lit occurs in s at position i
LitAt(s, i, lit) ==
    /\ i >= 1
    /\ i + Len(lit) - 1 <= Len(s)
    /\ \A k \in 1..Len(lit) : s[i + k - 1] = lit[k]

\* \b before position p (p = Len(s) + 1 is the end of the text)
WordBoundary(s, p) ==
    LET before == p > 1 /\ p - 1 <= Len(s) /\ IsWordChar(s[p - 1])
        after  == p >= 1 /\ p <= Len(s) /\ IsWordChar(s[p])
    IN  before # after

\* the literal occurs somewhere in s
Contains(s, lit) == \E i \in 1..Len(s) : LitAt(s, i, lit)

-----------------------------------------------------------------------------
(* Sensor name scoring.                                                    *)

LitPower == <<"p","o","w","e","r">>

\* Power\b at position j
PowerAt(s, j) == LitAt(s, j, LitPower) /\ WordBoundary(s, j + Len(LitPower))

\* The aggregate-power patterns, each \b<word><sep>Power\b with <sep> either
\* [_\s]? ("opt") or \s+ ("plus"). All are searched with re.IGNORECASE: the
\* operators below take the lower-cased text.
HIGH_PREF(eng) ==
    IF eng = "get_power"
    THEN << [word |-> <<"t","o","t","a","l">>, sep |-> "opt"],
            [word |-> <<"t","o","t","a","l">>, sep |-> "opt"],
            [word |-> <<"s","y","s","t","e","m">>, sep |-> "plus"],
            [word |-> <<"c","h","a","s","s","i","s">>, sep |-> "plus"],
            [word |-> <<"p","l","a","t","f","o","r","m">>, sep |-> "plus"],
            [word |-> <<"n","o","d","e">>, sep |-> "plus"] >>
    ELSE << [word |-> <<"t","o","t","a","l">>, sep |-> "opt"],
            [word |-> <<"t","o","t","a","l">>, sep |-> "opt"],
            [word |-> <<"t","o","t","a","l">>, sep |-> "plus"],
            [word |-> <<"s","y","s","t","e","m">>, sep |-> "plus"],
            [word |-> <<"c","h","a","s","s","i","s">>, sep |-> "plus"],
            [word |-> <<"p","l","a","t","f","o","r","m">>, sep |-> "plus"],
            [word |-> <<"n","o","d","e">>, sep |-> "plus"] >>

\* one aggregate-power pattern matches s starting at position i
MatchHighAt(s, i, pat) ==
    /\ WordBoundary(s, i)
    /\ LitAt(s, i, pat.word)
    /\ LET j0 == i + Len(pat.word)
       IN  IF pat.sep = "opt"
           THEN \/ PowerAt(s, j0)
                \/ /\ j0 <= Len(s)
                   /\ s[j0] = "_" \/ s[j0] \in SpaceChars
                   /\ PowerAt(s, j0 + 1)
           ELSE \E j \in (j0 + 1)..Len(s) :
                   /\ \A k \in j0..(j - 1) : s[k] \in SpaceChars
                   /\ PowerAt(s, j)

\* re.search(pat, n, re.IGNORECASE) for some pat of HIGH_PREF
MatchesHighPref(eng, n) ==
    LET l == LowerStr(n)
        pats == HIGH_PREF(eng)
    IN  \E p \in 1..Len(pats) : \E i \in 1..Len(l) : MatchHighAt(l, i, pats[p])

\* PLAIN_POWER.match(n): ^\s*Power\s*$, ignoring case
PLAIN_POWER(n) ==
    LET t == LowerStr(Strip(n)) IN t = LitPower

ExcludeWords ==
    { <<"c","p","u">>, <<"m","e","m">>, <<"g","p","u">>, <<"f","a","n">>,
      <<"h","d","d">>, <<"n","v","m","e">>, <<"r","a","i","d">>,
      <<"_","p","i","n">>, <<"_","p","o","u","t">>, <<"i","i","n">>,
      <<"i","o","u","t">>, <<"v","i","n">>, <<"v","o","u","t">> }

\* EXCLUDE_HARD.search(n): one of the words, PSU\d or Power\d+, ignoring case
EXCLUDE_HARD(n) ==
    LET l == LowerStr(n)
    IN  \/ \E w \in ExcludeWords : Contains(l, w)
        \/ \E i \in 1..Len(l) :
              /\ LitAt(l, i, <<"p","s","u">>)
              /\ i + 3 <= Len(l) /\ l[i + 3] \in DigitChars
        \/ \E i \in 1..Len(l) :
              /\ LitAt(l, i, LitPower)
              /\ i + 5 <= Len(l) /\ l[i + 5] \in DigitChars

\* name_score without the exclusion rule
name_score_no_exclusion(eng, name) ==
    LET n == Strip(name)
    IN  IF n = <<>> THEN 0
        ELSE IF MatchesHighPref(eng, n) THEN 100
        ELSE IF PLAIN_POWER(n) THEN 90
        ELSE IF Contains(LowerStr(n), LitPower) THEN 40
        ELSE 0

\* name_score with the exclusion rule tested before the aggregate patterns
name_score_exclusion_first(eng, name) ==
    LET n == Strip(name)
    IN  IF n = <<>> THEN 0
        ELSE IF EXCLUDE_HARD(n) THEN 20
        ELSE IF MatchesHighPref(eng, n) THEN 100
        ELSE IF PLAIN_POWER(n) THEN 90
        ELSE IF Contains(LowerStr(n), LitPower) THEN 40
        ELSE 0

name_score(eng, name) ==
    LET n == Strip(name)
    IN  IF n = <<>> THEN 0
        ELSE IF MatchesHighPref(eng, n) THEN 100
        ELSE IF PLAIN_POWER(n) THEN 90
        ELSE IF EXCLUDE_HARD(n) THEN 20
        ELSE IF Contains(LowerStr(n), LitPower) THEN 40
        ELSE 0

-----------------------------------------------------------------------------
(* Optional values: None is the empty tuple, a present value x is <<x>>.    *)

None == <<>>

Some(x) == <<x>>

\* isinstance(v, (int, float))
IsNumber(v) == v # None

-----------------------------------------------------------------------------
(* Line parsing: fields, the value field and the number in it.  A reading *)
(* is held in thousandths of a watt (float(...) of a decimal literal with *)
(* at most three fractional digits is exact to that unit).                *)

RECURSIVE SplitOn(_, _)
\* str.split(sep) for a one-character separator
SplitOn(s, sep) ==
    IF \E i \in 1..Len(s) : s[i] = sep
    THEN LET i == CHOOSE k \in 1..Len(s) : s[k] = sep /\ \A j \in 1..(k - 1) : s[j] # sep
         IN  <<SubSeq(s, 1, i - 1)>> \o SplitOn(SubSeq(s, i + 1, Len(s)), sep)
    ELSE <<s>>

\* value_field.split()[0] if value_field else ""
FirstToken(vf) ==
    LET t == LStrip(vf)
    IN  IF \E i \in 1..Len(t) : t[i] \in SpaceChars
        THEN SubSeq(t, 1, (CHOOSE k \in 1..Len(t) : t[k] \in SpaceChars
                                  /\ \A j \in 1..(k - 1) : t[j] \notin SpaceChars) - 1)
        ELSE t

RECURSIVE DigitRunEnd(_, _)
\* last position of the run of digits that starts at j (j - 1 when there is none)
DigitRunEnd(s, j) ==
    IF j >= 1 /\ j <= Len(s) /\ s[j] \in DigitChars THEN DigitRunEnd(s, j + 1) ELSE j - 1

RECURSIVE SpaceRunEnd(_, _)
SpaceRunEnd(s, j) ==
    IF j >= 1 /\ j <= Len(s) /\ s[j] \in SpaceChars THEN SpaceRunEnd(s, j + 1) ELSE j - 1

\* the optional (?:\.\d+) after an integer part that ends at e1, e2 being the
\* end of the digits after the point
FractionEnd(s, e1, e2) ==
    IF e1 + 1 <= Len(s) /\ s[e1 + 1] = "." /\ e2 >= e1 + 2 THEN e2 ELSE e1

\* \d+(?:\.\d+)? from d0, e1 being the end of the run of digits at d0
DigitsEnd(s, d0, e1) ==
    IF e1 < d0 THEN 0 ELSE FractionEnd(s, e1, DigitRunEnd(s, e1 + 2))

\* position after the optional sign at i
AfterSign(s, i) == IF i >= 1 /\ i <= Len(s) /\ s[i] \in {"-", "+"} THEN i + 1 ELSE i

UnsignedEndAt(s, d0) == DigitsEnd(s, d0, DigitRunEnd(s, d0))

\* [-+]?\d+(?:\.\d+)? starting at i: the position of its last character, 0 if
\* it does not match there.  The pattern is followed by a character that is
\* neither a digit nor a point, so the longest match is the only one.
NumberEndAt(s, i) == UnsignedEndAt(s, AfterSign(s, i))

\* (?:W|Watts?)\b on lower-cased text at u: the position of its last character, 0 if none
UnitEndAt(l, u) ==
    IF LitAt(l, u, <<"w">>) /\ WordBoundary(l, u + 1) THEN u
    ELSE IF LitAt(l, u, <<"w","a","t","t","s">>) /\ WordBoundary(l, u + 5) THEN u + 4
    ELSE IF LitAt(l, u, <<"w","a","t","t">>) /\ WordBoundary(l, u + 4) THEN u + 3
    ELSE 0

NumWEnds(e, u) == IF u = 0 THEN <<0, 0>> ELSE <<e, u>>

\* \s*(?:W|Watts?)\b after a number that ends at e
NumWUnit(l, e) ==
    IF e = 0 THEN <<0, 0>> ELSE NumWEnds(e, UnitEndAt(l, SpaceRunEnd(l, e + 1) + 1))

\* NUM_W_PAT matched at position i of the lower-cased value field: <<end of
\* group 1, end of the match>>, <<0, 0>> if it does not match there
NumWAt(l, i) == NumWUnit(l, NumberEndAt(l, i))

RECURSIVE NumWSearch(_, _)
NumWFound(l, i, ends) ==
    IF ends[1] # 0 THEN [start |-> i, numEnd |-> ends[1], end |-> ends[2]]
    ELSE NumWSearch(l, i + 1)

\* the leftmost match at or after position i
NumWSearch(l, i) ==
    IF i > Len(l) THEN [start |-> 0, numEnd |-> 0, end |-> 0]
    ELSE NumWFound(l, i, NumWAt(l, i))

\* NUM_W_PAT.search(value_field): [start, numEnd, end], start = 0 when there is no match
NUM_W_PAT(vf) == NumWSearch(LowerStr(vf), 1)

\* NUM_PAT.match(vf): ^[-+]?\d+(?:\.\d+)?$
NUM_PAT(vf) == vf # <<>> /\ NumberEndAt(vf, 1) = Len(vf)

DigitValue(c) == CHOOSE d \in 0..9 : <<"0","1","2","3","4","5","6","7","8","9">>[d + 1] = c

RECURSIVE DigitsValue(_)
DigitsValue(ds) ==
    IF ds = <<>> THEN 0 ELSE DigitsValue(SubSeq(ds, 1, Len(ds) - 1)) * 10 + DigitValue(ds[Len(ds)])

\* the first three digits after the point, padded with zeros
Thousandths(frac) == DigitsValue(SubSeq(frac \o <<"0","0","0">>, 1, 3))

\* the magnitude of a literal whose integer part is t[d0..e1]
Magnitude(t, d0, e1) ==
    DigitsValue(SubSeq(t, d0, e1)) * 1000 + Thousandths(SubSeq(t, e1 + 2, Len(t)))

UnsignedValue(t, d0) == Magnitude(t, d0, DigitRunEnd(t, d0))

\* float(text) of a decimal literal, in thousandths
FloatOf(t) ==
    IF t # <<>> /\ t[1] = "-" THEN 0 - UnsignedValue(t, 2) ELSE UnsignedValue(t, AfterSign(t, 1))

RECURSIVE CollapseSpaces(_)
\* re.sub(r"\s+", " ", s)
CollapseSpaces(s) ==
    IF s = <<>> THEN <<>>
    ELSE IF Head(s) \in SpaceChars
         THEN <<" ">> \o CollapseSpaces(SubSeq(s, SpaceRunEnd(s, 1) + 1, Len(s)))
         ELSE <<Head(s)>> \o CollapseSpaces(Tail(s))

compress_one_line(s, limit) ==
    LET c == CollapseSpaces(Strip(s)) IN SubSeq(c, 1, IF Len(c) < limit THEN Len(c) ELSE limit)

\* watts taken from the leading bare number before the unit pattern is tried
ParseNumber_bare_first(name, value_field, m, vf) ==
    IF NUM_PAT(vf)
    THEN [cand |-> TRUE, name |-> name, watts |-> Some(FloatOf(vf)), value_str |-> vf]
    ELSE IF m.start # 0
    THEN [cand |-> TRUE, name |-> name,
          watts |-> Some(FloatOf(SubSeq(value_field, m.start, m.numEnd))),
          value_str |-> SubSeq(value_field, m.start, m.end)]
    ELSE [cand |-> FALSE, name |-> name, watts |-> None, value_str |-> <<>>]

\* watts from the matches: m = NUM_W_PAT.search(value_field) first, then
\* vf = value_field.split()[0] against NUM_PAT; cand is FALSE when the line
\* yields no number
ParseNumber(name, value_field, m, vf) ==
    IF m.start # 0
    THEN [cand |-> TRUE, name |-> name,
          watts |-> Some(FloatOf(SubSeq(value_field, m.start, m.numEnd))),
          value_str |-> SubSeq(value_field, m.start, m.end)]
    ELSE IF NUM_PAT(vf)
    THEN [cand |-> TRUE, name |-> name, watts |-> Some(FloatOf(vf)), value_str |-> vf]
    ELSE [cand |-> FALSE, name |-> name, watts |-> None, value_str |-> <<>>]

ParseValue(name, value_field) ==
    ParseNumber(name, value_field, NUM_W_PAT(value_field), FirstToken(value_field))

\* value_field = parts[4] if len(parts) > 4 else (parts[2] if len(parts) > 2 else "")
ValueField(parts) ==
    IF Len(parts) > 4 THEN parts[5] ELSE IF Len(parts) > 2 THEN parts[3] ELSE <<>>

\* parts = [p.strip() for p in line.split("|")]
StripAll(raw) == [i \in 1..Len(raw) |-> Strip(raw[i])]

ParseParts(parts) == ParseValue(parts[1], ValueField(parts))

\* The part of the scan body that takes one decoded line to (name, watts).
ParseLine(line) ==
    IF ~ \E i \in 1..Len(line) : line[i] = "|"
    THEN [cand |-> FALSE, name |-> <<>>, watts |-> None, value_str |-> <<>>]
    ELSE ParseParts(StripAll(SplitOn(line, "|")))

-----------------------------------------------------------------------------
(* The per-line selection of the scan loop.                                *)

\* best = {"score": -1, "watts": None, "name": "", "value_str": "", "line": ""}
BestInit == [score |-> -1, watts |-> None, name |-> <<>>, value_str |-> <<>>, line |-> <<>>]

\* component-level noise is dropped: if sc <= 20: continue
Discarded(sc) == sc <= 20

\* the confidence test with the bound off by one: sc > 90
Confident_above_90(sc) == sc > 90

\* the confidence test that knows the bare word only: sc == 90
Confident_only_90(sc) == sc = 90

\* a confident match ends the scan: if sc >= 90
Confident(sc) == sc >= 90

\* a selection that lets a later candidate of equal score replace the kept one
UpdateBest_keeps_last(b, sc, watts, name, value_str, line) ==
    IF sc >= b.score
    THEN [score |-> sc, watts |-> watts, name |-> name, value_str |-> value_str, line |-> line]
    ELSE b

\* if sc > best["score"]: best = {...}
UpdateBest(b, sc, watts, name, value_str, line) ==
    IF sc > b.score
    THEN [score |-> sc, watts |-> watts, name |-> name, value_str |-> value_str, line |-> line]
    ELSE b

\* the scan body for one line that yielded a number
ScanCandidate(b, sc, watts, name, value_str, line) ==
    IF Discarded(sc) THEN b ELSE UpdateBest(b, sc, watts, name, value_str, line)

-----------------------------------------------------------------------------
(* ScoreSpec: name_score and the selection applied to every name that can  *)
(* be built from at most MaxNamePieces pieces.                             *)

MaxNamePieces == 4

NamePieces == << <<"T","o","t","a","l">>, <<"P","o","w","e","r">>, <<"P","O","W","E","R">>,
                 <<"S","y","s","t","e","m">>, <<" ">>, <<"_">>, <<"C","P","U">>, <<"1">> >>

RECURSIVE NameText(_)
NameText(ps) == IF ps = <<>> THEN <<>> ELSE NamePieces[Head(ps)] \o NameText(Tail(ps))

PieceSeqs == UNION { [1..n -> 1..Len(NamePieces)] : n \in 0..MaxNamePieces }

\* the reading used for the line under test
ProbeWatts == Some(75000)

\* the variables of the other specifications, at rest
ScoreIdle ==
    /\ sname = <<>> /\ sphase = "idle" /\ sscore = -1 /\ sbest = BestInit
    /\ sline = None /\ sparsed = None

ProcIdle ==
    /\ pstate = "none" /\ exit_code = None /\ out_open = FALSE /\ err_open = FALSE
    /\ pipe = <<>> /\ perr = <<>> /\ pmid = FALSE /\ pcount = 0

RunnerIdle ==
    /\ os_name = "posix" /\ total_timeout = 0 /\ now = 0 /\ rpc = "idle" /\ deadline = 0
    /\ buf = <<>> /\ lines = 0 /\ bytes_read = 0 /\ best = BestInit /\ rc = None
    /\ ret = None /\ scanned = <<>>

GuiIdle ==
    /\ running = FALSE /\ stop_flag = FALSE /\ log_queue = <<>> /\ txt_log = <<>>
    /\ poll_job = 0 /\ timers = {} /\ polling = 0 /\ btn_run = "idle"
    /\ process = 0 /\ thread = <<>> /\ engproc = <<>> /\ nruns = 0

OrchIdle ==
    /\ workers = 0 /\ retries = 0 /\ items = <<>> /\ mpc = "idle" /\ queue = <<>>
    /\ nthreads = 0 /\ task = <<>> /\ yielded = {} /\ detail_rows = <<>>
    /\ rack_sum = <<>> /\ room_sum = <<>> /\ df_detail = <<>>
    /\ df_rack = <<>> /\ df_room = <<>> /\ df_summary = <<>>
    /\ df_in = <<>> /\ exit_status = None

ScoreInit ==
    /\ engine \in Engines
    /\ sname \in PieceSeqs
    /\ sphase = "input"
    /\ sscore = -1
    /\ sbest = BestInit
    /\ sline = None /\ sparsed = None
    /\ ProcIdle /\ RunnerIdle /\ OrchIdle /\ GuiIdle

ScoreName ==
    /\ sphase = "input"
    /\ sphase' = "scored"
    /\ LET sc == name_score(engine, NameText(sname))
       IN  /\ sscore' = sc
           /\ sbest' = ScanCandidate(BestInit, sc, ProbeWatts, Strip(NameText(sname)), <<>>, <<>>)
    /\ UNCHANGED <<engine, guiVars, sname, sline, sparsed, procVars, runnerVars, orchVars>>

ScoreNext == ScoreName

ScoreSpec == ScoreInit /\ [][ScoreNext]_vars

\* the name under test, as name_score sees it
ScoredName == Strip(NameText(sname))

\* C7 as stated: every name matching an exclusion pattern scores exactly 20
\* and the line carrying it is not selected.
C7_ExcludedAlways20 ==
    (sphase = "scored" /\ EXCLUDE_HARD(ScoredName))
        => (sscore = 20 /\ sbest = BestInit)

\* C7 amended: a name that matches an exclusion pattern and no aggregate-power
\* pattern scores exactly 20, and the line carrying it is not selected even
\* though it is the only line of the scan.
C7_ExcludedUnlessAggregate ==
    (sphase = "scored" /\ EXCLUDE_HARD(ScoredName) /\ ~MatchesHighPref(engine, ScoredName))
        => (sscore = 20 /\ sbest = BestInit)

\* an excluded name that holds the word power was scored 20 and dropped
C7_Witness ==
    /\ sphase = "scored"
    /\ EXCLUDE_HARD(ScoredName) /\ ~MatchesHighPref(engine, ScoredName)
    /\ Contains(LowerStr(ScoredName), LitPower)
    /\ sscore = 20 /\ sbest = BestInit

-----------------------------------------------------------------------------
(* RunnerSpec: one invocation of sdr_elist_stream and its subordinate      *)
(* process.  The process is the environment: it may write lines (text and  *)
(* newline in separate writes), write to stderr, close either stream, exit *)
(* with any code, or do nothing.                                           *)

MaxLines == 2     \* lines one process writes

MaxTimeout == 1   \* largest total_timeout, in polling intervals

MaxOverrun == 2   \* how far past the deadline the clock is followed

\* the lines a process may write
SensorLines ==
    << <<"T","o","t","a","l"," ","P","o","w","e","r"," ","|"," ","1","0","h"," ","|"," ","o","k"," ","|"," ","7",".","1"," ","|"," ","1","0","0"," ","W","a","t","t","s">>,
       <<"P","o","w","e","r"," "," ","|"," ","1","1","h"," ","|"," ","o","k"," ","|"," ","7",".","2"," ","|"," ","5","0"," ","W","a","t","t","s","\r">>,
       <<"S","y","s"," ","P","o","w","e","r"," ","|"," ","0","8","h"," ","|"," ","o","k"," ","|"," ","7",".","1"," ","|"," ","3","4","2"," ","W","a","t","t","s">>,
       <<"C","P","U","1"," ","P","o","w","e","r"," ","|"," ","1","2","h"," ","|"," ","o","k"," ","|"," ","3",".","1"," ","|"," ","6","0"," ","W","a","t","t","s">>,
       <<"I","n","l","e","t"," ","T","e","m","p"," ","|"," ","0","4","h"," ","|"," ","o","k"," ","|"," ","7",".","1"," ","|"," ","2","5"," ","d","e","g","r","e","e","s"," ","C">>,
       <<"G","e","t"," ","S","D","R"," ","f","a","i","l","e","d">>,
       <<"A","u","x"," ","P","o","w","e","r"," ","|"," ","0","9","h"," ","|"," ","o","k"," ","|"," ","7",".","3"," ","|"," ","1","2","0"," ","W","a","t","t","s">>,
       <<"T","o","t","a","l"," "," ","P","o","w","e","r"," ","|"," ","1","0","h"," ","|"," ","o","k"," ","|"," ","7",".","1"," ","|"," ","3","0","0"," ","W","a","t","t","s">> >>

ErrMessage == <<"E","r","r","o","r",":"," "," ","n","o"," "," ","s","e","s","s","i","o","n","\n">>

NL == 0   \* the newline byte in pipe and buf

LineIds == 1..Len(SensorLines)

RECURSIVE TokensText(_)
\* the bytes of a sequence of pipe tokens
TokensText(ts) ==
    IF ts = <<>> THEN <<>>
    ELSE (IF Head(ts) = NL THEN <<"\n">> ELSE SensorLines[Head(ts)]) \o TokensText(Tail(ts))

RECURSIVE ChunkBytes(_)
\* len(chunk)
ChunkBytes(ts) ==
    IF ts = <<>> THEN 0
    ELSE (IF Head(ts) = NL THEN 1 ELSE Len(SensorLines[Head(ts)])) + ChunkBytes(Tail(ts))

RECURSIVE StripCR(_)
\* str.rstrip("\r")
StripCR(x) == IF x # <<>> /\ x[Len(x)] = "\r" THEN StripCR(SubSeq(x, 1, Len(x) - 1)) ELSE x

\* line = raw.decode(errors="ignore").rstrip("\r")
Decode(raw) == StripCR(TokensText(raw))

\* the byte strings that can stand before a newline: one line, or nothing
RawLines == {<<i>> : i \in LineIds} \cup {<<>>}

\* what the scan body computes from one line: the parse, sc = name_score(name)
\* and compress_one_line(line)
ScanOf(eng, info, cline) ==
    [cand |-> info.cand, name |-> info.name, watts |-> info.watts,
     value_str |-> info.value_str, score |-> name_score(eng, info.name), line |-> cline]

\* ScanOf of every line, computed once
LineTable ==
    [e \in Engines |->
        [r \in RawLines |-> ScanOf(e, ParseLine(Decode(r)), compress_one_line(Decode(r), 800))]]

\* buf.find(b"\n") >= 0
HasLine(b) == \E i \in 1..Len(b) : b[i] = NL

\* pos = buf.find(b"\n")
FirstNL(b) == CHOOSE i \in 1..Len(b) : b[i] = NL /\ \A j \in 1..(i - 1) : b[j] # NL

ProcRunning == pstate = "running"

\* the read ends are open until the finally clause closes them
ReadEndsOpen == rpc \notin {"idle", "spawn", "done"}

RunnerInit ==
    /\ engine \in Engines
    /\ os_name \in {"posix", "nt"}
    /\ total_timeout \in 1..MaxTimeout
    /\ now = 0 /\ rpc = "spawn" /\ deadline = 0
    /\ buf = <<>> /\ lines = 0 /\ bytes_read = 0 /\ best = BestInit /\ rc = None
    /\ ret = None /\ scanned = <<>>
    /\ ProcIdle /\ ScoreIdle /\ OrchIdle /\ GuiIdle

---- \* the subordinate process

ProcWriteText(l) ==
    /\ ProcRunning /\ out_open /\ ReadEndsOpen
    /\ ~pmid /\ pcount < MaxLines
    /\ pipe' = Append(pipe, l)
    /\ pmid' = TRUE
    /\ pcount' = pcount + 1
    /\ UNCHANGED <<engine, guiVars, orchVars, scoreVars, runnerVars, pstate, exit_code, out_open, err_open, perr>>

ProcWriteNewline ==
    /\ ProcRunning /\ out_open /\ ReadEndsOpen
    /\ pmid
    /\ pipe' = Append(pipe, NL)
    /\ pmid' = FALSE
    /\ UNCHANGED <<engine, guiVars, orchVars, scoreVars, runnerVars, pstate, exit_code, out_open, err_open, perr, pcount>>

ProcWriteErr ==
    /\ ProcRunning /\ err_open /\ ReadEndsOpen
    /\ perr = <<>>
    /\ perr' = ErrMessage
    /\ UNCHANGED <<engine, guiVars, orchVars, scoreVars, runnerVars, pstate, exit_code, out_open, err_open, pipe, pmid, pcount>>

\* closing a stream is followed while the runner still holds its read end
ProcCloseOut ==
    /\ ProcRunning /\ out_open /\ ReadEndsOpen
    /\ out_open' = FALSE
    /\ UNCHANGED <<engine, guiVars, orchVars, scoreVars, runnerVars, pstate, exit_code, err_open, pipe, perr, pmid, pcount>>

ProcCloseErr ==
    /\ ProcRunning /\ err_open /\ ReadEndsOpen
    /\ err_open' = FALSE
    /\ UNCHANGED <<engine, guiVars, orchVars, scoreVars, runnerVars, pstate, exit_code, out_open, pipe, perr, pmid, pcount>>

ProcExit(code) ==
    /\ ProcRunning
    /\ pstate' = "exited"
    /\ exit_code' = Some(code)
    /\ out_open' = FALSE
    /\ err_open' = FALSE
    /\ UNCHANGED <<engine, guiVars, orchVars, scoreVars, runnerVars, pipe, perr, pmid, pcount>>

\* the process of RunnerSpec writes one line of each kind
KindLines == 1..6

ProcStep ==
    \/ \E l \in KindLines : ProcWriteText(l)
    \/ ProcWriteNewline
    \/ ProcWriteErr
    \/ ProcCloseOut
    \/ ProcCloseErr
    \/ \E code \in {0, 1} : ProcExit(code)

---- \* sdr_elist_stream

\* proc.terminate(); proc.kill(): the process is gone, whatever it was doing
KillProc ==
    /\ pstate' = "exited"
    /\ exit_code' = IF ProcRunning THEN Some(-9) ELSE exit_code
    /\ out_open' = FALSE
    /\ err_open' = FALSE

\* proc.poll()
Poll == IF pstate = "exited" THEN exit_code ELSE None

\* bytes_available(proc.stdout): select() reports a pipe readable when it holds
\* data or when every write end is closed; PeekNamedPipe reports the bytes held
\* and fails, leaving 0, on a broken pipe
bytes_available ==
    IF os_name = "nt"
    THEN ChunkBytes(pipe)
    ELSE IF pipe # <<>> \/ ~out_open THEN 65536 ELSE 0

\* the stderr excerpt: compress_one_line(err.decode(errors="ignore"))
StderrExcerpt == compress_one_line(perr, 800)

\* proc = spawn(cmd), with its three outcomes
Spawn(outcome) ==
    /\ rpc = "spawn"
    /\ IF outcome = "started"
       THEN /\ pstate' = "running" /\ out_open' = TRUE /\ err_open' = TRUE
            /\ deadline' = now + total_timeout
            /\ rpc' = "check"
            /\ UNCHANGED ret
       ELSE /\ ret' = Some([watts |-> None,
                            status |-> IF outcome = "FileNotFoundError"
                                       THEN "ipmitool_not_found" ELSE "spawn_error",
                            log |-> [duration_s |-> 0]])
            /\ rpc' = "done"
            /\ UNCHANGED <<pstate, out_open, err_open, deadline>>
    /\ UNCHANGED <<engine, guiVars, orchVars, scoreVars, os_name, total_timeout, now, exit_code, pipe, perr, pmid, pcount,
                   buf, lines, bytes_read, best, rc, scanned>>

\* if time.monotonic() > deadline: terminate, kill, then read stderr
CheckDeadline ==
    /\ rpc = "check"
    /\ IF now > deadline
       THEN KillProc /\ rpc' = "timeout_stderr"
       ELSE rpc' = "avail" /\ UNCHANGED <<pstate, exit_code, out_open, err_open>>
    /\ UNCHANGED <<engine, guiVars, orchVars, scoreVars, os_name, total_timeout, now, pipe, perr, pmid, pcount,
                   deadline, buf, lines, bytes_read, best, rc, ret, scanned>>

\* a timeout that hands back the reading of the best candidate seen
TimeoutReturn_with_best ==
    /\ rpc = "timeout_stderr"
    /\ ~err_open
    /\ ret' = Some([watts |-> best.watts, status |-> "timeout",
                    log |-> [duration_s |-> now, lines |-> lines, bytes |-> bytes_read,
                             match_name |-> best.name, match_value_str |-> best.value_str,
                             match_line |-> best.line, rc |-> None, stderr |-> StderrExcerpt]])
    /\ rpc' = "done"
    /\ UNCHANGED <<engine, guiVars, orchVars, scoreVars, procVars, os_name, total_timeout, now,
                   deadline, buf, lines, bytes_read, best, rc, scanned>>

\* err = proc.stderr.read(): returns at end of file, that is once no process
\* holds the write end; then return None, "timeout", {...}
TimeoutReturn ==
    /\ rpc = "timeout_stderr"
    /\ ~err_open
    /\ ret' = Some([watts |-> None, status |-> "timeout",
                    log |-> [duration_s |-> now, lines |-> lines, bytes |-> bytes_read,
                             match_name |-> best.name, match_value_str |-> best.value_str,
                             match_line |-> best.line, rc |-> None, stderr |-> StderrExcerpt]])
    /\ rpc' = "done"
    /\ UNCHANGED <<engine, guiVars, orchVars, scoreVars, procVars, os_name, total_timeout, now,
                   deadline, buf, lines, bytes_read, best, rc, scanned>>

\* avail = bytes_available(proc.stdout); if avail > 0: chunk = os.read(...).
\* os.read takes what the pipe holds: a shorter read is the schedule in which
\* the process wrote the rest later.
Avail ==
    /\ rpc = "avail"
    /\ IF bytes_available > 0
       THEN IF pipe = <<>>
            THEN rpc' = "after" /\ UNCHANGED <<pipe, buf, bytes_read>>
            ELSE /\ bytes_read' = bytes_read + ChunkBytes(pipe)
                 /\ buf' = buf \o pipe
                 /\ pipe' = <<>>
                 /\ rpc' = "scan"
       ELSE rpc' = "poll" /\ UNCHANGED <<pipe, buf, bytes_read>>
    /\ UNCHANGED <<engine, guiVars, orchVars, scoreVars, os_name, total_timeout, now, pstate, exit_code, out_open,
                   err_open, perr, pmid, pcount, deadline, lines, best, rc, ret, scanned>>

\* the end of one turn of the inner loop, t being the scan of the line and
\* nbest the best candidate after it: return on a confident match, else go on
ScanDecide(raw, rest, t, nbest) ==
    /\ buf' = rest
    /\ lines' = lines + 1
    /\ scanned' = Append(scanned, raw)
    /\ best' = nbest
    /\ IF t.cand /\ ~Discarded(t.score) /\ Confident(t.score)
       THEN /\ KillProc
            /\ ret' = Some([watts |-> t.watts, status |-> "ok",
                            log |-> [duration_s |-> now, lines |-> lines + 1,
                                     bytes |-> bytes_read, match_name |-> t.name,
                                     match_value_str |-> nbest.value_str,
                                     match_line |-> nbest.line, rc |-> None,
                                     stderr |-> <<>>]])
            /\ rpc' = "done"
       ELSE UNCHANGED <<pstate, exit_code, out_open, err_open, ret, rpc>>

ScanEntry(raw, rest, t) ==
    ScanDecide(raw, rest, t,
               IF t.cand
               THEN ScanCandidate(best, t.score, t.watts, t.name, t.value_str, t.line)
               ELSE best)

\* one turn of the inner loop: split off the first line of buf and scan it
ScanLine ==
    /\ rpc = "scan"
    /\ HasLine(buf)
    /\ ScanEntry(SubSeq(buf, 1, FirstNL(buf) - 1), SubSeq(buf, FirstNL(buf) + 1, Len(buf)),
                 LineTable[engine][SubSeq(buf, 1, FirstNL(buf) - 1)])
    /\ UNCHANGED <<engine, guiVars, orchVars, scoreVars, os_name, total_timeout, now, pipe, perr, pmid, pcount,
                   deadline, bytes_read, rc>>

\* pos < 0: leave the inner loop
ScanEnd ==
    /\ rpc = "scan"
    /\ ~HasLine(buf)
    /\ rpc' = "check"
    /\ UNCHANGED <<engine, guiVars, orchVars, scoreVars, procVars, os_name, total_timeout, now,
                   deadline, buf, lines, bytes_read, best, rc, ret, scanned>>

\* else: if proc.poll() is not None: break
PollExit ==
    /\ rpc = "poll"
    /\ rpc' = IF Poll # None THEN "after" ELSE "sleep"
    /\ UNCHANGED <<engine, guiVars, orchVars, scoreVars, procVars, os_name, total_timeout, now,
                   deadline, buf, lines, bytes_read, best, rc, ret, scanned>>

\* time.sleep(0.02): one polling interval
Sleep ==
    /\ rpc = "sleep"
    /\ now' = now + 1
    /\ rpc' = "check"
    /\ UNCHANGED <<engine, guiVars, orchVars, scoreVars, procVars, os_name, total_timeout,
                   deadline, buf, lines, bytes_read, best, rc, ret, scanned>>

\* after the loop: rc = proc.poll(), and the branch on it
AfterLoop ==
    /\ rpc = "after"
    /\ rc' = Poll
    /\ IF Poll = Some(0)
       THEN /\ ret' = IF IsNumber(best.watts)
                      THEN Some([watts |-> best.watts, status |-> "ok",
                                 log |-> [duration_s |-> now, lines |-> lines, bytes |-> bytes_read,
                                          match_name |-> best.name,
                                          match_value_str |-> best.value_str,
                                          match_line |-> best.line, rc |-> Poll, stderr |-> <<>>]])
                      ELSE Some([watts |-> None, status |-> "no_power_output_sdr",
                                 log |-> [duration_s |-> now, lines |-> lines, bytes |-> bytes_read,
                                          match_name |-> <<>>, match_value_str |-> <<>>,
                                          match_line |-> <<>>, rc |-> Poll, stderr |-> <<>>]])
            /\ rpc' = "done"
       ELSE rpc' = "error_stderr" /\ UNCHANGED ret
    /\ UNCHANGED <<engine, guiVars, orchVars, scoreVars, procVars, os_name, total_timeout, now,
                   deadline, buf, lines, bytes_read, best, scanned>>

\* err = proc.stderr.read() in the else branch, then
\* return None, f"ipmitool_error(rc={rc})", {...}; the code is kept in log.rc
ErrorReturn ==
    /\ rpc = "error_stderr"
    /\ ~err_open
    /\ ret' = Some([watts |-> None, status |-> "ipmitool_error",
                    log |-> [duration_s |-> now, lines |-> lines, bytes |-> bytes_read,
                             match_name |-> <<>>, match_value_str |-> <<>>,
                             match_line |-> <<>>, rc |-> rc, stderr |-> StderrExcerpt]])
    /\ rpc' = "done"
    /\ UNCHANGED <<engine, guiVars, orchVars, scoreVars, procVars, os_name, total_timeout, now,
                   deadline, buf, lines, bytes_read, best, rc, scanned>>

\* a polling interval passes while proc.stderr.read() is blocked
BlockedInRead ==
    /\ rpc = "error_stderr"
    /\ err_open
    /\ now < deadline + MaxOverrun
    /\ now' = now + 1
    /\ UNCHANGED <<engine, guiVars, orchVars, scoreVars, procVars, os_name, total_timeout, rpc,
                   deadline, buf, lines, bytes_read, best, rc, ret, scanned>>

RunnerStep ==
    \/ \E outcome \in {"started", "FileNotFoundError", "Exception"} : Spawn(outcome)
    \/ CheckDeadline
    \/ TimeoutReturn
    \/ Avail
    \/ ScanLine
    \/ ScanEnd
    \/ PollExit
    \/ Sleep
    \/ AfterLoop
    \/ ErrorReturn

RunnerNext == ProcStep \/ RunnerStep \/ BlockedInRead

RunnerSpec == RunnerInit /\ [][RunnerNext]_vars

\* the runner's thread is scheduled and time passes; the process owes nothing
FairRunnerSpec == RunnerSpec /\ WF_vars(RunnerStep) /\ WF_vars(BlockedInRead)

---- \* properties of one invocation

Returned == rpc = "done" /\ ret # None

Status == ret[1].status

\* the scan of the i-th line scanned
ScanAt(i) == LineTable[engine][scanned[i]]

\* the lines the process wrote that the runner did not scan
Unscanned == {(buf \o pipe)[i] : i \in 1..Len(buf \o pipe)} \ {NL}

\* C2 as stated: with no confident line by the deadline the runner returns
\* timeout at most one polling interval after the deadline, and the process
\* is not running when it returns.
C2_TimeoutByDeadline ==
    /\ ReadEndsOpen => now <= deadline + 1
    /\ (Returned /\ Status = "timeout") => (~ProcRunning /\ now <= deadline + 1)

\* C3 as stated: every invocation of the runner eventually returns, whatever
\* the process does.
C3_RunnerReturns == <>(rpc = "done")

\* C4 as stated: when the process exited on its own with code 0 and a
\* candidate scoring above 20 was scanned, a runner that returned other than
\* by its deadline returned ok with the best candidate's watts.
C4_ExitZeroOk ==
    (Returned /\ exit_code = Some(0) /\ best.score > 20 /\ Status # "timeout")
        => (Status = "ok" /\ ret[1].watts = best.watts)

\* C5: a scanned line that yields a candidate scoring 90 or more is the last
\* line scanned, the process is no longer running, and the runner has
\* returned ok with the watts of that line.
C5_ConfidentEndsScan ==
    \A i \in 1..Len(scanned) :
        (ScanAt(i).cand /\ ScanAt(i).score >= 90)
            => /\ i = Len(scanned)
               /\ Returned /\ Status = "ok" /\ ret[1].watts = ScanAt(i).watts
               /\ ~ProcRunning

\* a confident line was scanned while the process ran and had written more:
\* the rest is left unscanned and the process was killed
C5_Witness ==
    /\ Returned /\ Status = "ok"
    /\ scanned # <<>> /\ ScanAt(Len(scanned)).cand /\ ScanAt(Len(scanned)).score >= 90
    /\ Unscanned # {}
    /\ exit_code = Some(-9)

\* C6 as stated: when the output of one invocation holds a score-100 line, in
\* any position, the reading the runner returns is that line's.
C6_HundredAlwaysWins ==
    (Returned /\ Status = "ok")
        => /\ \A i \in 1..Len(scanned) :
                  (ScanAt(i).cand /\ ScanAt(i).score = 100) => ret[1].watts = ScanAt(i).watts
           /\ \A l \in Unscanned :
                  (LineTable[engine][<<l>>].cand /\ LineTable[engine][<<l>>].score = 100)
                      => ret[1].watts = LineTable[engine][<<l>>].watts

\* C6 amended: a score-100 line wins over every line scanned in the same
\* invocation: once one is scanned, the reading and the name the runner
\* returns are that line's, whatever was scanned before it.  (A score-100
\* line written after a score-90 line is never scanned.)
C6_HundredWinsWhenScanned ==
    (Returned /\ Status = "ok")
        => \A i \in 1..Len(scanned) :
               (ScanAt(i).cand /\ ScanAt(i).score = 100)
                   => /\ ret[1].watts = ScanAt(i).watts
                      /\ ret[1].log.match_name = ScanAt(i).name

\* a score-40 candidate was scanned first, a score-100 line after it, and the
\* runner returned the second
C6_Witness ==
    /\ Returned /\ Status = "ok"
    /\ Len(scanned) = 2
    /\ ScanAt(1).cand /\ ScanAt(1).score = 40
    /\ ScanAt(2).cand /\ ScanAt(2).score = 100
    /\ ret[1].watts = ScanAt(2).watts /\ ret[1].watts # ScanAt(1).watts

-----------------------------------------------------------------------------
(* Spec: main.  A ThreadPoolExecutor of max(1, args.workers) threads runs  *)
(* one query_host / query_one task per item; main drains the futures in    *)
(* completion order.  A call of sdr_elist_stream is a step that takes time *)
(* and ends with one of the runner's results, or with an exception.        *)

MaxHosts == 2     \* host records in the inventory

MaxWorkers == 2   \* largest args.workers

MaxRetries == 1   \* largest args.retries

\* the host records an inventory is made of: two racks named A in different
\* rooms, and one record that occurs twice
HostRecord(i) ==
    CASE i = 1 -> [room |-> "R1", rack |-> "A", name |-> "n1"]
      [] i = 2 -> [room |-> "R2", rack |-> "A", name |-> "n2"]
      [] i = 3 -> [room |-> "R1", rack |-> "A", name |-> "n1"]
      [] i = 4 -> [room |-> "R1", rack |-> "B", name |-> "n3"]
      [] OTHER -> [room |-> "R2", rack |-> "B", name |-> "n4"]

\* the reading the controller of item i reports, in thousandths of a watt
Reading(i) ==
    CASE i = 1 -> 100000
      [] i = 2 -> 342000
      [] i = 3 -> 60250
      [] OTHER -> 50000

\* statuses sdr_elist_stream returns without watts, one for each shape of its
\* log: with rc None, with an exit code, and with duration_s alone
\* (no_power_output_sdr has the shape of the second, spawn_error of the third)
FailStatuses == {"timeout", "ipmitool_error", "ipmitool_not_found"}

\* what one call of sdr_elist_stream may end with
RunnerOutcomes == {"ok", "raise"} \cup FailStatuses

Hosts == 1..Len(items)

\* attempts = max(1, args.retries + 1)
attempts == IF retries + 1 > 1 THEN retries + 1 ELSE 1

\* a pool one thread too wide
max_workers_plus_one == IF workers + 1 > 1 THEN workers + 1 ELSE 1

\* ThreadPoolExecutor(max_workers=max(1, args.workers))
max_workers == IF workers > 1 THEN workers ELSE 1

\* round(x, 1) on thousandths: to the nearest tenth, ties to the even tenth
Round1(x) ==
    LET q == x \div 100
        r == x % 100
    IN  IF r > 50 \/ (r = 50 /\ q % 2 = 1) THEN (q + 1) * 100 ELSE q * 100

\* the loop that forgets its break
EndsLoop_never(status, watts) == FALSE

\* if status == "ok" and isinstance(watts, (int, float)): ... break
EndsLoop(status, watts) == status = "ok" /\ IsNumber(watts)

\* a detail row whose attempt count is not clamped to one
DetailRow_unclamped(it, final_watts, final_status) ==
    [room |-> it.room, rack |-> it.rack, name |-> it.name,
     watts |-> IF IsNumber(final_watts) THEN Some(Round1(final_watts[1])) ELSE None,
     status |-> final_status,
     attempts |-> retries + 1]

\* detail_row of query_host / query_one
DetailRow(it, final_watts, final_status) ==
    [room |-> it.room, rack |-> it.rack, name |-> it.name,
     watts |-> IF IsNumber(final_watts) THEN Some(Round1(final_watts[1])) ELSE None,
     status |-> final_status,
     attempts |-> attempts]

\* an exception row that reports one attempt
ExceptionRow_one_attempt(it) ==
    [room |-> it.room, rack |-> it.rack, name |-> it.name,
     watts |-> None, status |-> "exception", attempts |-> 1]

\* the row main builds in its except clause
ExceptionRow(it) ==
    [room |-> it.room, rack |-> it.rack, name |-> it.name,
     watts |-> None, status |-> "exception", attempts |-> 0]

\* the strings of the sort keys, in string order
SortedStrings == <<"A", "B", "R1", "R2", "n1", "n2", "n3", "n4">>

StrRank(x) == CHOOSE i \in 1..Len(SortedStrings) : SortedStrings[i] = x

\* row x sorts strictly before row y under ["room", "rack", "name", "ip"]
RowBefore(x, y) ==
    \/ StrRank(x.room) < StrRank(y.room)
    \/ x.room = y.room /\ StrRank(x.rack) < StrRank(y.rack)
    \/ x.room = y.room /\ x.rack = y.rack /\ StrRank(x.name) < StrRank(y.name)

RECURSIVE InsertRow(_, _)
\* x put after the rows of the sorted sq that do not sort after it
InsertRow(sq, x) ==
    IF sq = <<>> THEN <<x>>
    ELSE IF RowBefore(x, Head(sq)) THEN <<x>> \o sq
    ELSE <<Head(sq)>> \o InsertRow(Tail(sq), x)

RECURSIVE SortRows(_)
\* pd.DataFrame(detail_rows).sort_values(["room", "rack", "name", "ip"])
SortRows(rows) ==
    IF rows = <<>> THEN <<>>
    ELSE InsertRow(SortRows(SubSeq(rows, 1, Len(rows) - 1)), rows[Len(rows)])

\* d[k] = x in place of d[k] += x
AddTo_overwrite(d, k, x) ==
    [j \in DOMAIN d \cup {k} |-> IF j = k THEN x ELSE d[j]]

\* d[k] += x on a defaultdict(float)
AddTo(d, k, x) ==
    [j \in DOMAIN d \cup {k} |-> (IF j \in DOMAIN d THEN d[j] ELSE 0) + (IF j = k THEN x ELSE 0)]

\* a task before it runs.  calls, last_status and first_ok record the calls of
\* sdr_elist_stream that returned in it: how many (len(all_logs)), the status
\* of the latest, and the watts of the first that returned ok; running counts
\* the calls of sdr_elist_stream entered for the item and not yet left
TaskInit ==
    [st |-> "none", a |-> 0, final_status |-> "unknown", final_watts |-> None, result |-> None,
     calls |-> 0, last_status |-> "unknown", first_ok |-> None, running |-> 0]

\* the tasks a worker thread is running
Executing == {i \in Hosts : task[i].st = "call"}

\* the futures that are done, with a result or with an exception
Completed == {i \in Hosts : task[i].st \in {"finished", "raised"}}

Submitted == {i \in Hosts : task[i].st # "none"}

\* required = ["room", "rack", "name", "ip", "username", "password"]
required == {"room", "rack", "name", "ip", "username", "password"}

\* the input sheets: no file; a sheet with the six columns; a sheet that
\* lacks one of the six, or all of them
InputSheets ==
    {[isfile |-> FALSE, columns |-> {}]}
    \cup {[isfile |-> TRUE, columns |-> c] :
              c \in {required, {}} \cup {required \ {x} : x \in required}}

\* miss = [c for c in required if c not in df_in.columns]
miss == required \ df_in.columns

Init ==
    /\ engine \in Engines
    /\ workers \in 0..MaxWorkers
    /\ retries \in (0 - 1)..MaxRetries
    /\ items \in {[i \in 1..n |-> HostRecord(i)] : n \in 0..MaxHosts}
    /\ df_in \in InputSheets
    /\ exit_status = None
    /\ mpc = "load"
    /\ queue = <<>>
    /\ nthreads = 0
    /\ task = [i \in 1..Len(items) |-> TaskInit]
    /\ yielded = {}
    /\ detail_rows = <<>>
    /\ rack_sum = <<>>
    /\ room_sum = <<>>
    /\ df_detail = <<>>
    /\ df_rack = <<>>
    /\ df_room = <<>>
    /\ df_summary = <<>>
    /\ ScoreIdle /\ ProcIdle /\ RunnerIdle /\ GuiIdle

\* a main that does not look at the columns of the sheet
LoadInventory_unchecked ==
    /\ mpc = "load"
    /\ IF ~df_in.isfile
       THEN /\ mpc' = "returned"
            /\ exit_status' = Some(IF engine = "get_power" THEN 1 ELSE 2)
       ELSE /\ mpc' = "submit"
            /\ UNCHANGED exit_status
    /\ UNCHANGED <<engine, guiVars, scoreVars, procVars, runnerVars, workers, retries, items, queue,
                   nthreads, task, yielded, detail_rows, rack_sum, room_sum, df_detail,
                   df_rack, df_room, df_summary, df_in>>

\* main up to the pool: return 1 (2 in ipmi.py) when the input file does not
\* exist, return 2 (3 in ipmi.py) when a required column is missing, else
\* the items are made and the pool is entered
LoadInventory ==
    /\ mpc = "load"
    /\ IF ~df_in.isfile
       THEN /\ mpc' = "returned"
            /\ exit_status' = Some(IF engine = "get_power" THEN 1 ELSE 2)
       ELSE IF miss # {}
       THEN /\ mpc' = "returned"
            /\ exit_status' = Some(IF engine = "get_power" THEN 2 ELSE 3)
       ELSE /\ mpc' = "submit"
            /\ UNCHANGED exit_status
    /\ UNCHANGED <<engine, guiVars, scoreVars, procVars, runnerVars, workers, retries, items, queue,
                   nthreads, task, yielded, detail_rows, rack_sum, room_sum, df_detail,
                   df_rack, df_room, df_summary, df_in>>

\* ex.submit(query_one, ..., it) for the next item: the work item is queued,
\* and a thread is started when none is idle and the pool is not full
Submit(i) ==
    /\ mpc = "submit"
    /\ i \in Hosts /\ i = Cardinality(Submitted) + 1
    /\ task' = [task EXCEPT ![i].st = "queued"]
    /\ queue' = Append(queue, i)
    /\ nthreads' = IF nthreads - Cardinality(Executing) <= Len(queue) /\ nthreads < max_workers
                   THEN nthreads + 1 ELSE nthreads
    /\ UNCHANGED <<engine, guiVars, scoreVars, procVars, runnerVars, workers, retries, items, mpc,
                   yielded, detail_rows, rack_sum, room_sum, df_detail, df_rack, df_room, df_summary, df_in, exit_status>>

\* every item is submitted: main enters the as_completed loop
SubmitEnd ==
    /\ mpc = "submit"
    /\ Submitted = Hosts
    /\ mpc' = "drain"
    /\ UNCHANGED <<engine, guiVars, scoreVars, procVars, runnerVars, workers, retries, items, queue,
                   nthreads, task, yielded, detail_rows, rack_sum, room_sum, df_detail, df_rack, df_room, df_summary, df_in, exit_status>>

\* a pool that leaves a work item in the queue when a thread takes it
TaskStart_keeps_queued(i) ==
    /\ queue # <<>> /\ i = Head(queue)
    /\ Cardinality(Executing) < nthreads
    /\ queue' = queue
    /\ task' = [task EXCEPT ![i].st = "call", ![i].a = 1, ![i].running = @ + 1]
    /\ UNCHANGED <<engine, guiVars, scoreVars, procVars, runnerVars, workers, retries, items, mpc,
                   nthreads, yielded, detail_rows, rack_sum, room_sum, df_detail, df_rack, df_room, df_summary, df_in, exit_status>>

\* an idle worker thread takes the oldest work item and runs the task up to
\* its first call of sdr_elist_stream
TaskStart(i) ==
    /\ queue # <<>> /\ i = Head(queue)
    /\ Cardinality(Executing) < nthreads
    /\ queue' = Tail(queue)
    /\ task' = [task EXCEPT ![i].st = "call", ![i].a = 1, ![i].running = @ + 1]
    /\ UNCHANGED <<engine, guiVars, scoreVars, procVars, runnerVars, workers, retries, items, mpc,
                   nthreads, yielded, detail_rows, rack_sum, room_sum, df_detail, df_rack, df_room, df_summary, df_in, exit_status>>

\* the rest of the task once its loop has ended: the detail row and the return
TaskResult(i, final_watts, final_status) ==
    [task[i] EXCEPT !.st = "finished", !.final_watts = final_watts,
                    !.final_status = final_status,
                    !.result = Some([row |-> DetailRow(items[i], final_watts, final_status),
                                     watts |-> final_watts])]

\* a task that gives up on the first call that does not find ipmitool
TaskAfter_stops_not_found(i, watts, status) ==
    IF EndsLoop(status, watts)
    THEN TaskResult(i, watts, "ok")
    ELSE IF task[i].a >= attempts \/ status = "ipmitool_not_found"
         THEN TaskResult(i, task[i].final_watts, status)
         ELSE [task[i] EXCEPT !.a = task[i].a + 1, !.final_status = status,
                              !.running = @ + 1]

\* the task after a call that returned (watts, status): return on the end of
\* the loop, else enter the next call
TaskAfter(i, watts, status) ==
    IF EndsLoop(status, watts)
    THEN TaskResult(i, watts, "ok")
    ELSE IF task[i].a >= attempts
         THEN TaskResult(i, task[i].final_watts, status)
         ELSE [task[i] EXCEPT !.a = task[i].a + 1, !.final_status = status,
                              !.running = @ + 1]

\* the record t of a task, with the call that returned (watts, status) noted
NoteCall(t, watts, status) ==
    [t EXCEPT !.running = @ - 1,
              !.calls = @ + 1,
              !.last_status = status,
              !.first_ok = IF @ = None /\ status = "ok" THEN watts ELSE @]

\* a task that appends its row to the shared list itself
TaskReturn_appends(i, outcome) ==
    /\ i \in Hosts /\ task[i].st = "call"
    /\ task' = [task EXCEPT ![i] =
                   IF outcome = "raise"
                   THEN [task[i] EXCEPT !.st = "raised", !.running = @ - 1]
                   ELSE NoteCall(TaskAfter(i, IF outcome = "ok" THEN Some(Reading(i)) ELSE None,
                                                outcome),
                                      IF outcome = "ok" THEN Some(Reading(i)) ELSE None, outcome)]
    /\ detail_rows' = IF task'[i].st = "finished"
                      THEN Append(detail_rows, task'[i].result[1].row)
                      ELSE detail_rows
    /\ UNCHANGED <<engine, guiVars, scoreVars, procVars, runnerVars, workers, retries, items, mpc,
                   queue, nthreads, yielded, rack_sum, room_sum, df_detail, df_rack, df_room,
                   df_summary, df_in, exit_status>>

\* the call of sdr_elist_stream in progress in task i ends
TaskReturn(i, outcome) ==
    /\ i \in Hosts /\ task[i].st = "call"
    /\ task' = [task EXCEPT ![i] =
                   IF outcome = "raise"
                   THEN [task[i] EXCEPT !.st = "raised", !.running = @ - 1]
                   ELSE NoteCall(TaskAfter(i, IF outcome = "ok" THEN Some(Reading(i)) ELSE None,
                                                outcome),
                                      IF outcome = "ok" THEN Some(Reading(i)) ELSE None, outcome)]
    /\ UNCHANGED <<engine, guiVars, scoreVars, procVars, runnerVars, workers, retries, items, mpc,
                   queue, nthreads, yielded, detail_rows, rack_sum, room_sum, df_detail, df_rack, df_room, df_summary, df_in, exit_status>>

\* what fut.result() gives main for item i: the task's (row, watts), or the
\* exception row and no watts
Outcome(i) ==
    IF task[i].st = "raised"
    THEN [row |-> ExceptionRow(items[i]), watts |-> None]
    ELSE task[i].result[1]

\* a drain that keeps the rows of the hosts that gave a reading
DrainRow_only_ok(i, o) ==
    IF IsNumber(o.watts)
    THEN /\ detail_rows' = Append(detail_rows, o.row)
         /\ rack_sum' = AddTo(rack_sum, items[i].rack, o.watts[1])
         /\ room_sum' = AddTo(room_sum, items[i].room, o.watts[1])
    ELSE UNCHANGED <<detail_rows, rack_sum, room_sum>>

\* one turn of the as_completed loop, o being what the future gave
DrainRow(i, o) ==
    /\ detail_rows' = Append(detail_rows, o.row)
    /\ IF IsNumber(o.watts)
       THEN /\ rack_sum' = AddTo(rack_sum, items[i].rack, o.watts[1])
            /\ room_sum' = AddTo(room_sum, items[i].room, o.watts[1])
       ELSE UNCHANGED <<rack_sum, room_sum>>

\* as_completed yields a completed future that it has not yielded yet
Drain(i) ==
    /\ mpc = "drain"
    /\ i \in Completed \ yielded
    /\ yielded' = yielded \cup {i}
    /\ DrainRow(i, Outcome(i))
    /\ UNCHANGED <<engine, guiVars, scoreVars, procVars, runnerVars, workers, retries, items, mpc,
                   queue, nthreads, task, df_detail, df_rack, df_room, df_summary, df_in, exit_status>>

\* sorted({it[col] for it in items}), S being the set
SortedSet(S) == SelectSeq(SortedStrings, LAMBDA x : x \in S)

\* d.get(k, 0.0)
GetOr0(d, k) == IF k \in DOMAIN d THEN d[k] ELSE 0

\* the rack_summary sheet: one row per rack name, from rack_sum
RackSheet(racks_all) ==
    [k \in 1..Len(racks_all) |->
        [rack |-> racks_all[k], total_watts |-> Some(Round1(GetOr0(rack_sum, racks_all[k])))]]

\* the room_summary sheet: one row per room, from room_sum
RoomSheet(rooms_all) ==
    [k \in 1..Len(rooms_all) |->
        [room |-> rooms_all[k], total_watts |-> Some(Round1(GetOr0(room_sum, rooms_all[k])))]]

RECURSIVE Unique(_)
\* list(OrderedDict.fromkeys(xs))
Unique(xs) ==
    IF xs = <<>> THEN <<>>
    ELSE LET u == Unique(SubSeq(xs, 1, Len(xs) - 1))
         IN  IF \E k \in 1..Len(u) : u[k] = xs[Len(xs)] THEN u ELSE Append(u, xs[Len(xs)])

\* df["room"].tolist() and df["rack"].tolist()
RoomColumn(df) == [k \in 1..Len(df) |-> df[k].room]

RackColumn(df) == [k \in 1..Len(df) |-> df[k].rack]

\* df[df["room"] == rm] and df[df["rack"] == rk]
RowsOfRoom(df, rm) == SelectSeq(df, LAMBDA x : x.room = rm)

RowsOfRack(df, rk) == SelectSeq(df, LAMBDA x : x.rack = rk)

\* ok = df_detail[pd.to_numeric(df_detail["watts"], errors="coerce").notna()]
NumericRows(df) == SelectSeq(df, LAMBDA x : IsNumber(x.watts))

RECURSIVE SumWatts(_)
\* df["watts"].sum() of rows that hold numbers
SumWatts(df) == IF df = <<>> THEN 0 ELSE Head(df).watts[1] + SumWatts(Tail(df))

\* the label of a room's subtotal row
SubtotalLabel(rm) == IF rm = "R1" THEN "subtotal(R1)" ELSE "subtotal(R2)"

\* the rack rows of one room: round(float(w), 1) if w else 0.0
RackRows(ok_rm, rm, racks) ==
    [k \in 1..Len(racks) |->
        [room |-> rm, rack |-> racks[k], label |-> racks[k],
         total_watts |-> Some(Round1(SumWatts(RowsOfRack(ok_rm, racks[k]))))]]

\* the block of one room: its title row, its rack rows, its subtotal row and
\* an empty row
RoomBlock(df, rm) ==
    <<[room |-> rm, rack |-> "", label |-> "", total_watts |-> None]>>
    \o RackRows(RowsOfRoom(NumericRows(df), rm), rm, Unique(RackColumn(RowsOfRoom(df, rm))))
    \o <<[room |-> rm, rack |-> "", label |-> SubtotalLabel(rm),
          total_watts |-> Some(Round1(SumWatts(RowsOfRoom(NumericRows(df), rm))))],
         [room |-> "", rack |-> "", label |-> "", total_watts |-> None]>>

RECURSIVE RoomBlocks(_, _)
RoomBlocks(df, rooms) ==
    IF rooms = <<>> THEN <<>>
    ELSE RoomBlock(df, Head(rooms)) \o RoomBlocks(df, Tail(rooms))

build_room_rack_summary(df) == RoomBlocks(df, Unique(RoomColumn(df)))

\* every future was yielded: the pool shuts down and the sheets are built.
\* A frame made of no rows has no columns, and sort_values raises KeyError
\* before any summary is made.
Finish ==
    /\ mpc = "drain"
    /\ yielded = Hosts
    /\ df_detail' = SortRows(detail_rows)
    /\ mpc' = IF detail_rows = <<>> THEN "KeyError" ELSE "done"
    /\ exit_status' = IF detail_rows = <<>> THEN exit_status ELSE Some(0)
    /\ IF detail_rows = <<>>
       THEN UNCHANGED <<df_rack, df_room, df_summary>>
       ELSE IF engine = "get_power"
       THEN /\ df_rack' = RackSheet(SortedSet({items[i].rack : i \in Hosts}))
            /\ df_room' = RoomSheet(SortedSet({items[i].room : i \in Hosts}))
            /\ UNCHANGED df_summary
       ELSE /\ df_summary' = build_room_rack_summary(SortRows(detail_rows))
            /\ UNCHANGED <<df_rack, df_room>>
    /\ UNCHANGED <<engine, guiVars, scoreVars, procVars, runnerVars, workers, retries, items,
                   queue, nthreads, task, yielded, detail_rows, rack_sum, room_sum, df_in>>

Next ==
    \/ LoadInventory
    \/ \E i \in 1..MaxHosts : Submit(i)
    \/ SubmitEnd
    \/ \E i \in 1..MaxHosts : TaskStart(i)
    \/ \E i \in 1..MaxHosts, outcome \in RunnerOutcomes : TaskReturn(i, outcome)
    \/ \E i \in 1..MaxHosts : Drain(i)
    \/ Finish

Spec == Init /\ [][Next]_vars

---- \* properties of a run

RECURSIVE SumReadings(_)
\* the sum of the readings of a set of items
SumReadings(S) ==
    IF S = {} THEN 0
    ELSE LET i == CHOOSE j \in S : TRUE IN Reading(i) + SumReadings(S \ {i})

\* the items whose task returned ok and whose future main has drained
DrainedOk == {i \in yielded : task[i].st = "finished" /\ task[i].final_status = "ok"}

RowKey(x) == <<x.room, x.rack, x.name>>

\* C1: the task of every host calls the runner at most max(1, retries + 1)
\* times, and once a call has returned ok the task is finished: no call is in
\* progress or to come.
C1_AttemptsBounded ==
    \A i \in Hosts :
        /\ task[i].a <= (IF retries >= 0 THEN retries + 1 ELSE 1)
        /\ task[i].final_status = "ok" => task[i].st = "finished"

\* with two attempts allowed, one host stopped at its first call, which
\* returned ok, and another used both calls and failed
C1_Witness ==
    /\ retries = 1
    /\ \E i \in Hosts : task[i].st = "finished" /\ task[i].final_status = "ok" /\ task[i].a = 1
    /\ \E i \in Hosts : task[i].st = "finished" /\ task[i].final_status # "ok" /\ task[i].a = 2

\* C8: at no instant are more than max(1, workers) tasks executing, so no
\* more than that many calls of the runner are in progress.
C8_WidthBounded ==
    Cardinality(Executing) <= (IF workers >= 1 THEN workers ELSE 1)

\* the pool is full and a submitted task waits for a thread
C8_Witness ==
    /\ Cardinality(Executing) = (IF workers >= 1 THEN workers ELSE 1)
    /\ queue # <<>>

\* C9: a task that raised gives a row with status exception, zero attempts
\* and no watts, one per such task drained; it adds nothing to the rack and
\* room totals, which hold the readings of the drained ok hosts only; and the
\* run ends with a row for every item.
C9_ExceptionIsolated ==
    /\ \A k \in 1..Len(detail_rows) :
           detail_rows[k].status = "exception"
               => (detail_rows[k].attempts = 0 /\ detail_rows[k].watts = None)
    /\ Cardinality({k \in 1..Len(detail_rows) : detail_rows[k].status = "exception"})
           = Cardinality({i \in yielded : task[i].st = "raised"})
    /\ \A r \in DOMAIN rack_sum :
           rack_sum[r] = SumReadings({i \in DrainedOk : items[i].rack = r})
    /\ \A r \in DOMAIN room_sum :
           room_sum[r] = SumReadings({i \in DrainedOk : items[i].room = r})
    /\ mpc = "done" => Len(detail_rows) = Len(items)

\* the task of the first host raised and was drained first; the second host
\* of the same rack name then finished ok and the run ended
C9_Witness ==
    /\ mpc = "done"
    /\ Len(items) = 2
    /\ task[1].st = "raised" /\ detail_rows[1].status = "exception"
    /\ detail_rows[2].status = "ok"
    /\ rack_sum["A"] = Reading(2)

\* C10: when the run has finished, the detail sheet holds as many rows as the
\* inventory has records, and for every record as many rows with its room,
\* rack and name as the inventory has records with them.
C10_OneRowPerHost ==
    mpc = "done"
        => /\ Len(df_detail) = Len(items)
           /\ \A i \in Hosts :
                  Cardinality({k \in 1..Len(df_detail) : RowKey(df_detail[k]) = RowKey(items[i])})
                      = Cardinality({j \in Hosts : RowKey(items[j]) = RowKey(items[i])})

\* a finished run of two hosts, drained in the reverse of the inventory order,
\* one ok and one not
C10_Witness ==
    /\ mpc = "done"
    /\ Len(items) = 2
    /\ RowKey(detail_rows[1]) = RowKey(items[2])
    /\ detail_rows[1].status = "ok" /\ detail_rows[2].status = "timeout"
    /\ RowKey(df_detail[1]) = RowKey(items[1])

-----------------------------------------------------------------------------
(* EngineSpec: the engine as a whole, a behaviour being either one         *)
(* invocation of sdr_elist_stream or one run of main.                      *)

EngineInit == RunnerInit \/ Init

EngineNext == RunnerNext \/ Next

EngineSpec == EngineInit /\ [][EngineNext]_vars

\* C11: in every result watts is present exactly when the status is ok: in
\* what sdr_elist_stream returns, in the (row, watts) a task returns and in
\* every detail row, the exception rows included.
C11_WattsIffOk ==
    /\ Returned => (IsNumber(ret[1].watts) <=> Status = "ok")
    /\ \A i \in Hosts :
           task[i].result # None
               => /\ IsNumber(task[i].result[1].watts) <=> task[i].result[1].row.status = "ok"
                  /\ IsNumber(task[i].result[1].row.watts) <=> task[i].result[1].row.status = "ok"
    /\ \A k \in 1..Len(detail_rows) :
           IsNumber(detail_rows[k].watts) <=> detail_rows[k].status = "ok"

\* the runner timed out after it had scanned a candidate with a reading, and
\* returned no watts
C11_Witness ==
    /\ Returned /\ Status = "timeout"
    /\ IsNumber(best.watts)
    /\ ret[1].watts = None

\* the totals the output reports for rack rk of room rm: the rack_summary
\* rows of that rack name, or the summary rows of that room and rack
RackTotals(rm, rk) ==
    IF engine = "get_power"
    THEN {df_rack[k].total_watts : k \in {j \in 1..Len(df_rack) : df_rack[j].rack = rk}}
    ELSE {df_summary[k].total_watts :
              k \in {j \in 1..Len(df_summary) :
                         df_summary[j].room = rm /\ df_summary[j].rack = rk}}

\* the totals the output reports for room rm: the room_summary rows of that
\* room, or the subtotal rows of that room
RoomTotals(rm) ==
    IF engine = "get_power"
    THEN {df_room[k].total_watts : k \in {j \in 1..Len(df_room) : df_room[j].room = rm}}
    ELSE {df_summary[k].total_watts :
              k \in {j \in 1..Len(df_summary) :
                         /\ df_summary[j].room = rm
                         /\ df_summary[j].rack = ""
                         /\ df_summary[j].label = SubtotalLabel(rm)}}

\* the rows of the output that carry a rack total
RackEntries ==
    IF engine = "get_power"
    THEN 1..Len(df_rack)
    ELSE {j \in 1..Len(df_summary) : df_summary[j].rack # ""}

\* the detail rows with status ok, of a room and of a rack of a room
OkRowsOfRoom(rm) == SelectSeq(df_detail, LAMBDA x : x.status = "ok" /\ x.room = rm)

OkRowsOfRack(rm, rk) == SelectSeq(OkRowsOfRoom(rm), LAMBDA x : x.rack = rk)

\* C12: once every task has completed and the sheets are built, the total
\* reported for each rack of a room, and for each room, of the inventory is
\* the sum of the watts of the hosts of that location whose status is ok.
C12_TotalsAreOkSums ==
    mpc = "done"
        => \A i \in Hosts :
               /\ RackTotals(items[i].room, items[i].rack)
                      = {Some(Round1(SumWatts(OkRowsOfRack(items[i].room, items[i].rack))))}
               /\ RoomTotals(items[i].room)
                      = {Some(Round1(SumWatts(OkRowsOfRoom(items[i].room))))}

\* C13: the output has one rack total for each (room, rack) pair of the
\* inventory, and the total of a rack leaves out the hosts of a rack of the
\* same name in another room.
C13_RackKeyedByRoomAndRack ==
    mpc = "done"
        => /\ Cardinality(RackEntries)
                  = Cardinality({<<items[i].room, items[i].rack>> : i \in Hosts})
           /\ \A i, j \in Hosts :
                  /\ items[i].rack = items[j].rack
                  /\ items[i].room # items[j].room
                  /\ task[j].st = "finished" /\ task[j].final_status = "ok"
                  => \A t \in RackTotals(items[i].room, items[i].rack) :
                         t[1] <= SumWatts(OkRowsOfRack(items[i].room, items[i].rack))

\* C14: every room and every rack of a room of the inventory has a total in
\* the output, and the total is 0.0 when none of its hosts ended ok.
C14_EveryLocationReported ==
    mpc = "done"
        => \A i \in Hosts :
               /\ RoomTotals(items[i].room) # {}
               /\ RackTotals(items[i].room, items[i].rack) # {}
               /\ OkRowsOfRoom(items[i].room) = <<>>
                      => RoomTotals(items[i].room) = {Some(0)}
               /\ OkRowsOfRack(items[i].room, items[i].rack) = <<>>
                      => RackTotals(items[i].room, items[i].rack) = {Some(0)}

\* C15: every step that changes the list of detail rows or the rack and room
\* running totals is one turn of the loop of main that drains the completed
\* futures: it yields one more future and changes no task, and no step of a
\* worker task changes them.
C15_OnlyDrainWrites ==
    [][(detail_rows' # detail_rows \/ rack_sum' # rack_sum \/ room_sum' # room_sum)
           => /\ mpc = "drain" /\ mpc' = "drain"
              /\ task' = task
              /\ \E i \in Completed \ yielded : yielded' = yielded \cup {i}
              /\ Len(detail_rows') = Len(detail_rows) + 1]_vars

\* main has folded a result while a worker task is still in a call
C15_Witness ==
    /\ detail_rows # <<>>
    /\ DOMAIN rack_sum # {}
    /\ Executing # {}

\* C16: a task that returned has status ok and the watts of the first call
\* that returned ok, when a call returned ok; otherwise max(1, retries + 1)
\* calls were made and its status is the status of the last call, which is
\* not ok.
C16_ControllerResult ==
    \A i \in Hosts :
        task[i].st = "finished"
            => LET t == task[i]
                   res == t.result[1]
               IN  /\ res.row.status = t.final_status
                   /\ IsNumber(t.first_ok)
                          => /\ t.final_status = "ok"
                             /\ res.watts = t.first_ok
                             /\ t.last_status = "ok"
                   /\ ~IsNumber(t.first_ok)
                          => /\ t.calls = (IF retries + 1 > 1 THEN retries + 1 ELSE 1)
                             /\ t.final_status = t.last_status
                             /\ t.final_status \in FailStatuses
                             /\ res.watts = None

\* a task returned ok on its second call, and another returned that
\* ipmitool was not found after all its calls
C16_Witness ==
    \E i, j \in Hosts :
        /\ task[i].st = "finished" /\ task[i].calls = 2 /\ IsNumber(task[i].first_ok)
        /\ task[j].st = "finished" /\ task[j].calls = 2
        /\ task[j].final_status = "ipmitool_not_found"

\* C17 as stated: every detail row records a number of attempts between 1
\* and the configured maximum max(1, retries + 1).
C17_AttemptsWithinBounds ==
    \A k \in 1..Len(detail_rows) :
        /\ 1 <= detail_rows[k].attempts
        /\ detail_rows[k].attempts <= attempts

\* C17: the row of a task that returned records the configured maximum
\* max(1, retries + 1), which is at least 1, whether the task ended ok or
\* used up its calls; the row made for a task that raised records 0.
C17_AttemptsRecorded ==
    /\ \A k \in 1..Len(detail_rows) :
           IF detail_rows[k].status = "exception"
           THEN detail_rows[k].attempts = 0
           ELSE /\ detail_rows[k].attempts = attempts
                /\ 1 <= detail_rows[k].attempts
    /\ \A i \in Hosts :
           task[i].st = "finished"
               => /\ task[i].result[1].row.attempts = attempts
                  /\ 1 <= task[i].result[1].row.attempts
                  /\ task[i].calls <= task[i].result[1].row.attempts

\* with retries below zero, one row of a task that returned and one row of a
\* task that raised
C17_Witness ==
    /\ retries < 0
    /\ \E k, l \in 1..Len(detail_rows) :
           /\ detail_rows[k].status = "exception" /\ detail_rows[k].attempts = 0
           /\ detail_rows[l].status # "exception" /\ detail_rows[l].attempts = 1

\* C18 as stated: when no scanned line scored above 20 and the process exited
\* on its own with code 0, a runner that returned other than by its deadline
\* returned no_power_output_sdr with no watts.
C18_ExitZeroNothingFound ==
    (Returned /\ exit_code = Some(0) /\ ~IsNumber(best.watts) /\ Status # "timeout")
        => (Status = "no_power_output_sdr" /\ ret[1].watts = None)

\* C19 as stated: when the process exited on its own with code 1 and no
\* confident line was scanned, a runner that returned other than by its
\* deadline returned ipmitool_error with that exit code and no watts, also
\* when a candidate scoring 21 to 89 was scanned.
C19_ExitNonZeroToolError ==
    (Returned /\ exit_code = Some(1) /\ best.score < 90 /\ Status # "timeout")
        => /\ Status = "ipmitool_error"
           /\ ret[1].log.rc = Some(1)
           /\ ret[1].watts = None

\* C20: the score of a name is 100 when it matches an aggregate-power
\* pattern; else 90 when, trimmed, it is the word power in any case; else 20
\* when it matches an exclusion pattern; else 40 when it holds the word power;
\* else 0.  It is one of 0, 20, 40, 90, 100, and an empty or blank name
\* scores 0.
C20_ScorePrecedence ==
    sphase = "scored"
        => /\ sscore = (IF MatchesHighPref(engine, ScoredName) THEN 100
                        ELSE IF LowerStr(ScoredName) = LitPower THEN 90
                        ELSE IF EXCLUDE_HARD(ScoredName) THEN 20
                        ELSE IF Contains(LowerStr(ScoredName), LitPower) THEN 40
                        ELSE 0)
           /\ sscore \in {0, 20, 40, 90, 100}
           /\ ScoredName = <<>> => sscore = 0

\* a name that matches an aggregate-power pattern and an exclusion pattern and
\* holds the word power was scored 100
C20_Witness ==
    /\ sphase = "scored"
    /\ MatchesHighPref(engine, ScoredName)
    /\ EXCLUDE_HARD(ScoredName)
    /\ Contains(LowerStr(ScoredName), LitPower)
    /\ sscore = 100

\* C21: at most one call of sdr_elist_stream is in progress for an item at
\* any time, and call n + 1 is in progress only when n calls have returned.
C21_AttemptsSequential ==
    \A i \in Hosts :
        /\ task[i].running <= 1
        /\ task[i].running = 1 <=> task[i].st = "call"
        /\ task[i].st = "call" => task[i].calls = task[i].a - 1
        /\ task[i].st = "finished" => task[i].calls = task[i].a

\* the second call for an item is in progress after its first has returned,
\* while another item's call is in progress too
C21_Witness ==
    \E i, j \in Hosts :
        /\ i # j
        /\ task[i].st = "call" /\ task[i].a = 2 /\ task[i].calls = 1 /\ task[i].running = 1
        /\ task[j].st = "call"

-----------------------------------------------------------------------------
(* FoldSpec: the as_completed loop of main and the sheets, on an inventory  *)
(* of hosts of one rack that all answered on their first call, with the    *)
(* sums computed as IEEE 754 doubles compute them.  A double is written    *)
(* <<d, e>>: the double e units in the last place away from the double     *)
(* nearest to d thousandths.  float() of a decimal literal is <<d, 0>>.     *)

MaxFoldHosts == 3   \* hosts of the rack

\* the readings of the hosts, in thousandths of a watt: 90.05 W and 128.05 W
FoldReadings == {90050, 128050}

\* x + y on doubles: how far the double sum lies from the double nearest to
\* the decimal sum, for the sums of up to MaxFoldHosts + 1 readings, or
\* readings rounded to tenths; every other sum of them is the nearest double
FloatErr(x, y) ==
    CASE x = <<90050, 0>> /\ y = <<128050, 0>> -> 1
      [] x = <<128050, 0>> /\ y = <<90050, 0>> -> 1
      [] x = <<218100, 1>> /\ y = <<90050, 0>> -> 1
      [] x = <<218100, 1>> /\ y = <<128050, 0>> -> 1
      [] x = <<256100, 0>> /\ y = <<90050, 0>> -> 1
      [] x = <<256100, 0>> /\ y = <<128050, 0>> -> 1
      [] x = <<256200, 0>> /\ y = <<128100, 0>> -> 0 - 1
      [] x = <<308100, 0>> /\ y = <<128100, 0>> -> 1
      [] x = <<308150, 1>> /\ y = <<90050, 0>> -> 1
      [] x = <<308150, 1>> /\ y = <<128050, 0>> -> 1
      [] x = <<346150, 1>> /\ y = <<90050, 0>> -> 1
      [] x = <<346150, 1>> /\ y = <<128050, 0>> -> 1
      [] x = <<346200, 0>> /\ y = <<128100, 0>> -> 0 - 1
      [] x = <<384150, 1>> /\ y = <<90050, 0>> -> 1
      [] x = <<384300, -1>> /\ y = <<90000, 0>> -> 0 - 1
      [] OTHER -> 0

FloatAdd(x, y) == <<x[1] + y[1], FloatErr(x, y)>>

\* where the double nearest to d thousandths lies: below (-1), on (0) or
\* above (1) the decimal, for the decimals of the model that end in 50
DecimalSide(d) ==
    CASE d = 90050 -> 0 - 1
      [] d = 128050 -> 1
      [] d = 270150 -> 0 - 1
      [] d = 308150 -> 0 - 1
      [] d = 346150 -> 0 - 1
      [] d = 384150 -> 0 - 1
      [] OTHER -> 0

\* round(x, 1) on a double: the decimal expansion of the double itself is
\* rounded, so a double beside the decimal tie goes to its own side
Round1F(x) ==
    LET q == x[1] \div 100
        r == x[1] % 100
        side == IF x[2] # 0 THEN x[2] ELSE DecimalSide(x[1])
    IN  IF r > 50 \/ (r = 50 /\ side > 0) \/ (r = 50 /\ side = 0 /\ q % 2 = 1)
        THEN <<(q + 1) * 100, 0>>
        ELSE <<q * 100, 0>>

\* d[k] += x on a defaultdict(float) of doubles
FloatAddTo(d, k, x) ==
    [j \in DOMAIN d \cup {k} |->
        IF j = k THEN FloatAdd(IF k \in DOMAIN d THEN d[k] ELSE <<0, 0>>, x) ELSE d[j]]

RECURSIVE FloatSum(_)
\* the sum of a column of doubles, first to last
FloatSum(ws) ==
    IF ws = <<>> THEN <<0, 0>>
    ELSE FloatAdd(FloatSum(SubSeq(ws, 1, Len(ws) - 1)), ws[Len(ws)])

\* what the task of host i returned: its detail row and its watts
FoldResult(i, w) ==
    [row |-> [room |-> "R1", rack |-> "A", name |-> i,
              watts |-> Some(Round1F(w)), status |-> "ok", attempts |-> 1],
     watts |-> Some(w)]

\* every task has returned ok on its first call and main enters the loop
FoldInit ==
    /\ engine \in Engines
    /\ workers = MaxFoldHosts
    /\ retries = 0
    /\ \E n \in 1..MaxFoldHosts :
           /\ items = [i \in 1..n |-> [room |-> "R1", rack |-> "A", name |-> i]]
           /\ task \in [1..n -> {FoldResult(i, <<w, 0>>) : i \in 1..n, w \in FoldReadings}]
           /\ \A i \in 1..n : task[i].row.name = i
    /\ df_in = [isfile |-> TRUE, columns |-> required]
    /\ exit_status = None
    /\ mpc = "drain"
    /\ queue = <<>>
    /\ nthreads = 0
    /\ yielded = {}
    /\ detail_rows = <<>>
    /\ rack_sum = <<>>
    /\ room_sum = <<>>
    /\ df_detail = <<>>
    /\ df_rack = <<>>
    /\ df_room = <<>>
    /\ df_summary = <<>>
    /\ ScoreIdle /\ ProcIdle /\ RunnerIdle /\ GuiIdle

\* one turn of the as_completed loop for the future of host i
FoldDrain(i) ==
    /\ mpc = "drain"
    /\ i \in Hosts \ yielded
    /\ yielded' = yielded \cup {i}
    /\ detail_rows' = Append(detail_rows, task[i].row)
    /\ rack_sum' = FloatAddTo(rack_sum, items[i].rack, task[i].watts[1])
    /\ room_sum' = FloatAddTo(room_sum, items[i].room, task[i].watts[1])
    /\ UNCHANGED <<engine, guiVars, scoreVars, procVars, runnerVars, workers, retries, items, mpc,
                   queue, nthreads, task, df_detail, df_rack, df_room, df_summary, df_in, exit_status>>

\* the watts column of the sorted detail sheet: the rows by host name
SortedWatts == [k \in 1..Len(items) |-> task[k].row.watts[1]]

\* the sheets: rack_summary and room_summary from the running sums, or the
\* summary from the sorted detail rows
FoldFinish ==
    /\ mpc = "drain"
    /\ yielded = Hosts
    /\ mpc' = "done"
    /\ exit_status' = Some(0)
    /\ df_detail' = [k \in 1..Len(items) |-> task[k].row]
    /\ IF engine = "get_power"
       THEN /\ df_rack' = <<[rack |-> "A", total_watts |-> Some(Round1F(rack_sum["A"]))]>>
            /\ df_room' = <<[room |-> "R1", total_watts |-> Some(Round1F(room_sum["R1"]))]>>
            /\ UNCHANGED df_summary
       ELSE /\ df_summary' =
                   <<[room |-> "R1", rack |-> "", label |-> "", total_watts |-> None],
                     [room |-> "R1", rack |-> "A", label |-> "A",
                      total_watts |-> Some(Round1F(FloatSum(SortedWatts)))],
                     [room |-> "R1", rack |-> "", label |-> SubtotalLabel("R1"),
                      total_watts |-> Some(Round1F(FloatSum(SortedWatts)))],
                     [room |-> "", rack |-> "", label |-> "", total_watts |-> None]>>
            /\ UNCHANGED <<df_rack, df_room>>
    /\ UNCHANGED <<engine, guiVars, scoreVars, procVars, runnerVars, workers, retries, items,
                   queue, nthreads, task, yielded, detail_rows, rack_sum, room_sum, df_in>>

FoldNext ==
    \/ \E i \in 1..MaxFoldHosts : FoldDrain(i)
    \/ FoldFinish

FoldSpec == FoldInit /\ [][FoldNext]_vars

\* the readings of the hosts in inventory order
InventoryWatts == [k \in 1..Len(items) |-> task[k].watts[1]]

\* the total of the rack and of the room in the run of this engine on this
\* inventory in which the tasks complete in inventory order
InOrderTotal ==
    IF engine = "get_power"
    THEN Some(Round1F(FloatSum(InventoryWatts)))
    ELSE Some(Round1F(FloatSum(SortedWatts)))

\* C22 as stated: the rack total and the room total of a run in which every
\* host answered are those of the run on the same inventory and readings in
\* which the tasks complete in inventory order, so that any two runs agree.
C22_TotalsOrderIndependent ==
    mpc = "done"
        => /\ RackTotals("R1", "A") = {InOrderTotal}
           /\ RoomTotals("R1") = {InOrderTotal}

-----------------------------------------------------------------------------
(* ScenarioSpec: main on three hosts of room R1, rack A, whose controllers  *)
(* answer as follows: the first with a 'Total Power' line of 100 W, the    *)
(* second with nothing until the deadline on the first call and a 'Power'  *)
(* line of 50 W on every later call, the third with no power line and exit *)
(* code 0 on every call.                                                   *)

ScenarioItems ==
    <<[room |-> "R1", rack |-> "A", name |-> "n1"],
      [room |-> "R1", rack |-> "A", name |-> "n2"],
      [room |-> "R1", rack |-> "A", name |-> "n3"]>>

\* what sdr_elist_stream returns when line l is all the process writes before
\* it exits with code 0
ResultOfLine(l) ==
    LET sc == LineTable[engine][<<l>>]
    IN  IF sc.cand /\ ~Discarded(sc.score)
        THEN [watts |-> sc.watts, status |-> "ok"]
        ELSE [watts |-> None, status |-> "no_power_output_sdr"]

\* what call a of sdr_elist_stream for host i returns
ScenarioResult(i, a) ==
    CASE i = 1 -> ResultOfLine(1)
      [] i = 2 -> IF a = 1 THEN [watts |-> None, status |-> "timeout"] ELSE ResultOfLine(2)
      [] OTHER -> ResultOfLine(5)

ScenarioInit ==
    /\ engine \in Engines
    /\ workers \in 0..MaxWorkers
    /\ retries \in 1..MaxRetries
    /\ items = ScenarioItems
    /\ df_in = [isfile |-> TRUE, columns |-> required]
    /\ exit_status = None
    /\ mpc = "submit"
    /\ queue = <<>>
    /\ nthreads = 0
    /\ task = [i \in 1..Len(items) |-> TaskInit]
    /\ yielded = {}
    /\ detail_rows = <<>>
    /\ rack_sum = <<>>
    /\ room_sum = <<>>
    /\ df_detail = <<>>
    /\ df_rack = <<>>
    /\ df_room = <<>>
    /\ df_summary = <<>>
    /\ ScoreIdle /\ ProcIdle /\ RunnerIdle /\ GuiIdle

\* the call of sdr_elist_stream in progress in task i ends
ScenarioReturn(i) ==
    /\ i \in Hosts /\ task[i].st = "call"
    /\ LET r == ScenarioResult(i, task[i].a)
       IN  task' = [task EXCEPT ![i] = NoteCall(TaskAfter(i, r.watts, r.status),
                                                  r.watts, r.status)]
    /\ UNCHANGED <<engine, guiVars, scoreVars, procVars, runnerVars, workers, retries, items, mpc,
                   queue, nthreads, yielded, detail_rows, rack_sum, room_sum, df_detail,
                   df_rack, df_room, df_summary, df_in, exit_status>>

ScenarioNext ==
    \/ \E i \in DOMAIN ScenarioItems : Submit(i)
    \/ SubmitEnd
    \/ \E i \in DOMAIN ScenarioItems : TaskStart(i)
    \/ \E i \in DOMAIN ScenarioItems : ScenarioReturn(i)
    \/ \E i \in DOMAIN ScenarioItems : Drain(i)
    \/ Finish

ScenarioSpec == ScenarioInit /\ [][ScenarioNext]_vars

\* C23: when the run of the three hosts is over, the rack A total and the
\* room R1 total are 150.0, and the detail sheet has three rows, of statuses
\* ok, ok and no_power_output_sdr, with watts 100.0, 50.0 and none.
C23_EndToEnd ==
    mpc = "done"
        => /\ RackTotals("R1", "A") = {Some(150000)}
           /\ RoomTotals("R1") = {Some(150000)}
           /\ Len(detail_rows) = 3
           /\ [k \in 1..Len(df_detail) |-> df_detail[k].name] = <<"n1", "n2", "n3">>
           /\ [k \in 1..Len(df_detail) |-> df_detail[k].status]
                  = <<"ok", "ok", "no_power_output_sdr">>
           /\ [k \in 1..Len(df_detail) |-> df_detail[k].watts]
                  = <<Some(100000), Some(50000), None>>

\* the run is over; the second host needed two calls, and the rows were
\* drained in another order than the inventory's
C23_Witness ==
    /\ mpc = "done"
    /\ task[2].calls = 2 /\ task[2].last_status = "ok"
    /\ task[3].final_status = "no_power_output_sdr"
    /\ detail_rows[1].name = "n3"
    /\ RackTotals("R1", "A") = {Some(150000)}

\* C24: while the sheet lacks one of the six required columns, no task is
\* submitted, no thread is started and no call of sdr_elist_stream (hence no
\* process) is made, and main has returned a code that is not 0 once it has
\* left its first phase.
C24_MissingFieldIsFatal ==
    (df_in # <<>> /\ df_in.isfile /\ miss # {})
        => /\ mpc \in {"load", "returned"}
           /\ mpc = "returned" => (exit_status # None /\ exit_status[1] # 0)
           /\ Submitted = {} /\ queue = <<>> /\ nthreads = 0
           /\ \A i \in Hosts : task[i].running = 0 /\ task[i].calls = 0
           /\ detail_rows = <<>>

\* main returned on a sheet that holds rows and lacks only the password column
C24_Witness ==
    /\ mpc = "returned"
    /\ df_in.isfile /\ miss = {"password"}
    /\ items # <<>>
    /\ exit_status \in {Some(2), Some(3)}

\* C25 as stated: the log of a returned invocation, whatever its status,
\* holds the name, the value text and the line of the best candidate scanned
\* in that invocation.
C25_LogHoldsBest ==
    (Returned /\ Status \in {"ok", "timeout", "ipmitool_error", "no_power_output_sdr"})
        => /\ ret[1].log.match_name = best.name
           /\ ret[1].log.match_value_str = best.value_str
           /\ ret[1].log.match_line = best.line


\* ---- the retry controller of one host, with the rc and stderr of each call ----

\* the texts err.decode() can hold once compressed to one line
Excerpts == {<<>>, compress_one_line(ErrMessage, 800), compress_one_line(SensorLines[6], 800)}

\* what sdr_elist_stream returns, by return statement, with the rc and stderr
\* entries of its log; the log of a failed spawn has neither
RunnerResults ==
    {[watts |-> Some(Reading(1)), status |-> "ok", log |-> [rc |-> None, stderr |-> <<>>]],
     [watts |-> Some(Reading(1)), status |-> "ok", log |-> [rc |-> Some(0), stderr |-> <<>>]],
     [watts |-> None, status |-> "no_power_output_sdr", log |-> [rc |-> Some(0), stderr |-> <<>>]]}
    \cup {[watts |-> None, status |-> "timeout", log |-> [rc |-> None, stderr |-> e]] : e \in Excerpts}
    \cup {[watts |-> None, status |-> "ipmitool_error", log |-> [rc |-> Some(1), stderr |-> e]] :
             e \in Excerpts}
    \cup {[watts |-> None, status |-> s, log |-> [duration_s |-> 0]] :
             s \in {"ipmitool_not_found", "spawn_error"}}

\* the last_rc column: ipmi.py takes the rc of the latest log that has one,
\* get_power_from_ipmi.py the rc of the last log; no number gives a blank cell
last_rc(logs) ==
    IF engine = "ipmi"
    THEN LET S == {k \in DOMAIN logs : "rc" \in DOMAIN logs[k]}
         IN  IF S = {} THEN None ELSE logs[CHOOSE k \in S : \A j \in S : j <= k].rc
    ELSE IF "rc" \in DOMAIN logs[Len(logs)] THEN logs[Len(logs)].rc ELSE None

\* the last_stderr column: ipmi.py takes the latest stderr that is not empty,
\* get_power_from_ipmi.py the stderr of the last log
last_err(logs) ==
    IF engine = "ipmi"
    THEN LET S == {k \in DOMAIN logs : "stderr" \in DOMAIN logs[k] /\ logs[k].stderr # <<>>}
         IN  IF S = {} THEN <<>> ELSE logs[CHOOSE k \in S : \A j \in S : j <= k].stderr
    ELSE IF "stderr" \in DOMAIN logs[Len(logs)] THEN logs[Len(logs)].stderr ELSE <<>>

\* the detail row with its two diagnostic columns
DiagnosedRow(row, logs) ==
    [room |-> row.room, rack |-> row.rack, name |-> row.name, watts |-> row.watts,
     status |-> row.status, attempts |-> row.attempts,
     last_rc |-> last_rc(logs), last_stderr |-> last_err(logs)]

\* query_one / query_host entered for the first item: all_logs = []
ControllerInit ==
    /\ engine \in Engines
    /\ workers = 1
    /\ retries \in -1..MaxRetries
    /\ items = <<HostRecord(1)>>
    /\ df_in = [isfile |-> TRUE, columns |-> required]
    /\ exit_status = None
    /\ mpc = "drain"
    /\ queue = <<>>
    /\ nthreads = 1
    /\ task = <<[st |-> "call", a |-> 1, final_status |-> "unknown", final_watts |-> None,
                 result |-> None, calls |-> 0, last_status |-> "unknown", first_ok |-> None,
                 running |-> 1, all_logs |-> <<>>]>>
    /\ yielded = {}
    /\ detail_rows = <<>>
    /\ rack_sum = <<>>
    /\ room_sum = <<>>
    /\ df_detail = <<>>
    /\ df_rack = <<>>
    /\ df_room = <<>>
    /\ df_summary = <<>>
    /\ ScoreIdle /\ ProcIdle /\ RunnerIdle /\ GuiIdle

\* the call of sdr_elist_stream in progress returns r: all_logs.append(lg),
\* then the loop goes on or the task returns its row
ControllerReturn(r) ==
    /\ task[1].st = "call"
    /\ LET t == NoteCall(TaskAfter(1, r.watts, r.status), r.watts, r.status)
           logs == Append(task[1].all_logs, r.log)
       IN  task' = [task EXCEPT ![1] =
                       [t EXCEPT !.all_logs = logs,
                                 !.result = IF t.st = "finished"
                                            THEN Some([row |-> DiagnosedRow(t.result[1].row, logs),
                                                       watts |-> t.result[1].watts])
                                            ELSE @]]
    /\ UNCHANGED <<engine, guiVars, scoreVars, procVars, runnerVars, workers, retries, items, mpc,
                   queue, nthreads, yielded, detail_rows, rack_sum, room_sum, df_detail,
                   df_rack, df_room, df_summary, df_in, exit_status>>

ControllerNext == \E r \in RunnerResults : ControllerReturn(r)

ControllerSpec == ControllerInit /\ [][ControllerNext]_vars

\* the log of the last call made for the host
LastLog == task[1].all_logs[Len(task[1].all_logs)]

\* C26: the detail row of a host carries the exit code and the error excerpt
\* of the last attempt made for it, and the row of a host whose last attempt
\* returned ok carries an empty excerpt
C26_RowHoldsLastAttempt ==
    task[1].st = "finished" =>
        LET row == task[1].result[1].row
        IN  /\ row.last_rc = (IF "rc" \in DOMAIN LastLog THEN LastLog.rc ELSE None)
            /\ row.last_stderr = (IF "stderr" \in DOMAIN LastLog THEN LastLog.stderr ELSE <<>>)
            /\ (task[1].last_status = "ok" => row.last_stderr = <<>>)


\* ---- ParseSpec: the scan body applied to every line whose value field can
\* be built from at most MaxValuePieces pieces ----

MaxValuePieces == 3

ValuePieces == << <<"3","4","2">>, <<"7",".","1"," ">>, <<" ">>, <<"W">>,
                  <<"W","a","t","t","s">>, <<"o","f">>, <<"-">> >>

RECURSIVE ValueText(_)
ValueText(ps) == IF ps = <<>> THEN <<>> ELSE ValuePieces[Head(ps)] \o ValueText(Tail(ps))

MaxDigits == 6   \* the digits of a value field; thousandths of more do not fit an integer

DigitCount(t) == Cardinality({i \in 1..Len(t) : t[i] \in DigitChars})

ValueSeqs ==
    {v \in UNION { [1..n -> 1..Len(ValuePieces)] : n \in 0..MaxValuePieces } :
        DigitCount(ValueText(v)) <= MaxDigits}

\* the fields before the value field: `sdr elist` prints five fields a line,
\* `sdr` three
LineHeads ==
    << <<"S","y","s"," ","P","o","w","e","r"," ","|"," ","0","8","h"," ","|"," ","o","k"," ","|"," ","7",".","1"," ","|"," ">>,
       <<"S","y","s"," ","P","o","w","e","r"," ","|"," ","0","8","h"," ","|"," ">> >>

\* the text of the line under test
LineText(l) == LineHeads[l.head] \o ValueText(l.value)

ParseInit ==
    /\ engine \in Engines
    /\ sline \in {Some([head |-> h, value |-> v]) : h \in 1..Len(LineHeads), v \in ValueSeqs}
    /\ sparsed = None
    /\ sname = <<>> /\ sphase = "input" /\ sscore = -1 /\ sbest = BestInit
    /\ ProcIdle /\ RunnerIdle /\ OrchIdle /\ GuiIdle

\* the scan body on the line: parse, score, select
ParseScan ==
    /\ sphase = "input"
    /\ sphase' = "scored"
    /\ LET line == LineText(sline[1])
           info == ParseLine(line)
           sc == name_score(engine, info.name)
       IN  /\ sparsed' = Some(info)
           /\ sscore' = IF info.cand THEN sc ELSE -1
           /\ sbest' = IF info.cand
                       THEN ScanCandidate(BestInit, sc, info.watts, info.name, info.value_str,
                                          compress_one_line(line, 800))
                       ELSE BestInit
    /\ UNCHANGED <<engine, guiVars, sname, sline, procVars, runnerVars, orchVars>>

ParseNext == ParseScan

ParseSpec == ParseInit /\ [][ParseNext]_vars

\* the value field of the line under test, as printed
TestedValue == Strip(ValueText(sline[1].value))

\* t is a decimal literal: an optional sign, digits, and optionally a point
\* and digits
IsLiteral(t) ==
    LET u == IF t # <<>> /\ t[1] \in {"-", "+"} THEN Tail(t) ELSE t
    IN  /\ u # <<>>
        /\ \A i \in 1..Len(u) : u[i] \in DigitChars \/ u[i] = "."
        /\ Cardinality({i \in 1..Len(u) : u[i] = "."}) <= 1
        /\ u[1] # "." /\ u[Len(u)] # "."

\* a watt unit token stands at v[s..k]
IsUnitToken(v, s, k) ==
    /\ LowerStr(SubSeq(v, s, k)) \in {<<"w">>, <<"w","a","t","t">>, <<"w","a","t","t","s">>}
    /\ (k = Len(v) \/ ~IsWordChar(v[k + 1]))

\* v[i..j] is a number with a watt unit token right behind it
UnitQualified(v, i, j) ==
    /\ IsLiteral(SubSeq(v, i, j))
    /\ \E s \in (j + 1)..Len(v) :
          /\ \A x \in (j + 1)..(s - 1) : v[x] \in SpaceChars
          /\ \E k \in s..Len(v) : IsUnitToken(v, s, k)

QualifiedSpans(v) == {ij \in (1..Len(v)) \X (1..Len(v)) : UnitQualified(v, ij[1], ij[2])}

\* the leftmost unit-qualified number, taken as long as it goes
FirstQualified(v) ==
    CHOOSE ij \in QualifiedSpans(v) :
        \A o \in QualifiedSpans(v) : ij[1] < o[1] \/ (ij[1] = o[1] /\ ij[2] >= o[2])

\* C27: a number with a watt unit right behind it is taken before the leading
\* bare number of the value field; the line "Sys Power | 08h | ok | 7.1 | 342
\* Watts" gives name "Sys Power", 342.0 watts and score 40; a value field with
\* neither form gives no candidate
C27_UnitNumberPreferred ==
    sphase = "scored" /\ sparsed # None =>
        LET v == TestedValue
            p == sparsed[1]
        IN  /\ IF QualifiedSpans(v) # {}
               THEN p.cand /\ p.watts = Some(FloatOf(SubSeq(v, FirstQualified(v)[1],
                                                             FirstQualified(v)[2])))
               ELSE IF IsLiteral(FirstToken(v))
               THEN p.cand /\ p.watts = Some(FloatOf(FirstToken(v)))
               ELSE ~p.cand /\ sbest = BestInit
            /\ LineText(sline[1]) = SensorLines[3] =>
                  /\ p.cand /\ p.name = <<"S","y","s"," ","P","o","w","e","r">>
                  /\ p.watts = Some(342000) /\ sscore = 40
                  /\ sbest.watts = Some(342000)

\* a line with a bare leading number and another number with a unit has been scanned
C27_Witness ==
    /\ sphase = "scored" /\ sparsed # None
    /\ TestedValue = <<"7",".","1"," ","3","4","2","W","a","t","t","s">>
    /\ sparsed[1].watts = Some(342000)
    /\ sbest.value_str = <<"3","4","2","W","a","t","t","s">>


\* C28 as stated: when the runner returns the result of a natural exit, every
\* complete line the process wrote to standard output before it exited has
\* been scanned: none is left unread in the pipe.
C28_NoLineLeftUnread ==
    (Returned /\ exit_code \in {Some(0), Some(1)} /\ IsNumber(rc))
        => ~HasLine(pipe) /\ ~HasLine(buf)


\* C29 as stated: whenever the runner has returned, the process it spawned is
\* no longer running.
C29_ReturnedMeansNotRunning == rpc = "done" => ~ProcRunning


\* ---- SelectionSpec: the runner against a process whose lines are the
\* candidates that can tie: the two of score 40, with the bare word and the
\* excluded name beside them ----

SelectionLines == {2, 3, 4, 7}

SelectionProcStep ==
    \/ \E l \in SelectionLines : ProcWriteText(l)
    \/ ProcWriteNewline
    \/ ProcWriteErr
    \/ ProcCloseOut
    \/ ProcCloseErr
    \/ \E code \in {0, 1} : ProcExit(code)

SelectionNext == SelectionProcStep \/ RunnerStep \/ BlockedInRead

SelectionSpec == RunnerInit /\ [][SelectionNext]_vars

\* the scanned lines that yielded a number and a score above 20
CandidatesScanned == {i \in 1..Len(scanned) : ScanAt(i).cand /\ ScanAt(i).score > 20}

\* the earliest of the scanned candidates of the highest score
EarliestMax ==
    CHOOSE i \in CandidatesScanned :
        \A j \in CandidatesScanned :
            \/ ScanAt(j).score < ScanAt(i).score
            \/ ScanAt(j).score = ScanAt(i).score /\ i <= j

\* best is the earliest scanned candidate of the highest score, and a return
\* by the exit-code-zero branch hands back its watts
BestIsEarliestMax ==
    /\ CandidatesScanned = {} => best = BestInit
    /\ CandidatesScanned # {} =>
          /\ best.score = ScanAt(EarliestMax).score
          /\ best.watts = ScanAt(EarliestMax).watts
          /\ best.line = ScanAt(EarliestMax).line
          /\ (Returned /\ IsNumber(rc) /\ rc[1] = 0)
                => (Status = "ok" /\ ret[1].watts = ScanAt(EarliestMax).watts)

\* C30: during one scan the score of best never decreases; of candidates of
\* equal score the first scanned is kept; and at natural exit with code zero
\* the watts returned are those of the earliest scanned line of the highest
\* score above 20
C30_FirstBestKept == []BestIsEarliestMax /\ [][best'.score >= best.score]_vars

\* the runner returned by the exit-code-zero branch after scanning two
\* candidates of equal score and different watts
C30_Witness ==
    /\ Returned /\ IsNumber(rc) /\ rc[1] = 0
    /\ Len(scanned) = 2
    /\ ScanAt(1).score = 40 /\ ScanAt(2).score = 40
    /\ ScanAt(1).watts # ScanAt(2).watts
    /\ ret[1].watts = ScanAt(1).watts


\* ---- PairSpec: query_host and query_one side by side on the same
\* behaviours of the subordinate processes ----

MaxWritten == 2   \* lines a process writes in one behaviour

\* the lines the processes write here: Total Power, Power, Sys Power, CPU1
\* Power, Aux Power and Total  Power with two blanks
PairLines == {1, 2, 3, 4, 7, 8}

\* a behaviour: the lines written, all read by the runner, and how the call
\* ends: the process exits with code 0 or 1, or the deadline passes
Behaviours ==
    {[written |-> w, ending |-> e] :
        w \in UNION {[1..n -> PairLines] : n \in 0..MaxWritten},
        e \in {"exit0", "exit1", "deadline"}}

RECURSIVE ScanFold(_, _, _, _)
\* the scan loop over the lines ls from best b with n lines counted, tab
\* holding the scan of every line by the engine: the confident hit that ends
\* it, or the best left when the lines are through
ScanFold(tab, ls, b, n) ==
    IF ls = <<>> THEN [hit |-> FALSE, best |-> b, lines |-> n]
    ELSE LET sc == tab[<<Head(ls)>>]
             nb == IF sc.cand
                   THEN ScanCandidate(b, sc.score, sc.watts, sc.name, sc.value_str, sc.line)
                   ELSE b
         IN  IF sc.cand /\ ~Discarded(sc.score) /\ Confident(sc.score)
             THEN [hit |-> TRUE, best |-> nb, lines |-> n + 1]
             ELSE ScanFold(tab, Tail(ls), nb, n + 1)

\* what sdr_elist_stream of engine eng returns on behaviour bh
StreamResult(eng, bh) ==
    LET f == ScanFold(LineTable[eng], bh.written, BestInit, 0)
        found == [lines |-> f.lines, match_name |-> f.best.name]
        blank == [lines |-> f.lines, match_name |-> <<>>]
    IN  IF f.hit THEN [watts |-> f.best.watts, status |-> "ok", log |-> found]
        ELSE IF bh.ending = "deadline"
        THEN [watts |-> None, status |-> "timeout", log |-> found]
        ELSE IF bh.ending = "exit1"
        THEN [watts |-> None, status |-> "ipmitool_error", log |-> blank]
        ELSE IF IsNumber(f.best.watts)
        THEN [watts |-> f.best.watts, status |-> "ok", log |-> found]
        ELSE [watts |-> None, status |-> "no_power_output_sdr", log |-> blank]

\* task 1 is query_host of get_power_from_ipmi.py, task 2 query_one of ipmi.py
PairEngine(i) == IF i = 1 THEN "get_power" ELSE "ipmi"

\* both functions entered for the same host
PairInit ==
    /\ engine = "get_power"
    /\ workers = 1
    /\ retries \in -1..MaxRetries
    /\ items = <<HostRecord(1), HostRecord(1)>>
    /\ df_in = [isfile |-> TRUE, columns |-> required]
    /\ exit_status = None
    /\ mpc = "drain"
    /\ queue = <<>>
    /\ nthreads = 1
    /\ task = [i \in 1..2 |->
                  [st |-> "call", a |-> 1, final_status |-> "unknown", final_watts |-> None,
                   result |-> None, calls |-> 0, last_status |-> "unknown", first_ok |-> None,
                   running |-> 1, all_logs |-> <<>>]]
    /\ yielded = {}
    /\ detail_rows = <<>>
    /\ rack_sum = <<>>
    /\ room_sum = <<>>
    /\ df_detail = <<>>
    /\ df_rack = <<>>
    /\ df_room = <<>>
    /\ df_summary = <<>>
    /\ ScoreIdle /\ ProcIdle /\ RunnerIdle /\ GuiIdle

\* the next process behaves as bh: every function still in its loop gets what
\* its sdr_elist_stream returns on it
PairAttempt(bh) ==
    /\ \E i \in 1..2 : task[i].st = "call"
    /\ task' = [i \in 1..2 |->
                   IF task[i].st = "call"
                   THEN LET r == StreamResult(PairEngine(i), bh)
                        IN  [NoteCall(TaskAfter(i, r.watts, r.status), r.watts, r.status)
                                EXCEPT !.all_logs = Append(task[i].all_logs, r.log)]
                   ELSE task[i]]
    /\ UNCHANGED <<engine, guiVars, scoreVars, procVars, runnerVars, workers, retries, items, mpc,
                   queue, nthreads, yielded, detail_rows, rack_sum, room_sum, df_detail,
                   df_rack, df_room, df_summary, df_in, exit_status>>

PairNext == \E bh \in Behaviours : PairAttempt(bh)

PairSpec == PairInit /\ [][PairNext]_vars

\* C31 as stated: on every sequence of process behaviours query_host and
\* query_one return the same final status and the same final watts after the
\* same number of attempts.
C31_EnginesAgree ==
    (Len(task) = 2 /\ task[1].st = "finished" /\ task[2].st = "finished")
        => /\ task[1].final_status = task[2].final_status
           /\ task[1].final_watts = task[2].final_watts
           /\ task[1].calls = task[2].calls


-----------------------------------------------------------------------------
(* GuiSpec: the window of gui.py while it is open.  The main thread runs    *)
(* on_run, on_stop and the poll callback; each run has a runner thread in   *)
(* _run_subprocess and an engine subprocess.  The heartbeat only moves the  *)
(* progress bar and is left out.                                            *)

MaxRuns == 2          \* runs the user starts

MaxEngineLines == 1   \* lines an engine writes

MaxStops == 1         \* stop requests that are logged

Runs == 1..MaxRuns

GuiInit ==
    /\ engine \in Engines
    /\ running = FALSE /\ stop_flag = FALSE
    /\ log_queue = <<>> /\ txt_log = <<>>
    /\ poll_job = 0 /\ timers = {} /\ polling = 0
    /\ btn_run = "normal"
    /\ process = 0
    /\ thread = [k \in Runs |-> "none"]
    /\ engproc = [k \in Runs |-> [st |-> "none", written |-> 0, pipe |-> 0]]
    /\ nruns = 0
    /\ ScoreIdle /\ ProcIdle /\ RunnerIdle /\ OrchIdle

\* the "[Stop Requested]" lines in the log view
StopRequests == Cardinality({i \in 1..Len(txt_log) : txt_log[i] = "StopRequested"})

\* on_run, called by the run button; valid: the engine script exists and an
\* input path is given
on_run(valid) ==
    /\ polling = 0 /\ btn_run = "normal" /\ nruns < MaxRuns
    /\ IF running \/ ~valid
       THEN UNCHANGED <<running, stop_flag, txt_log, poll_job, timers, btn_run, thread, nruns>>
       ELSE /\ btn_run' = "disabled"
            /\ running' = TRUE
            /\ stop_flag' = FALSE
            /\ txt_log' = Append(txt_log, "Running")
            /\ thread' = [thread EXCEPT ![nruns + 1] = "spawn"]
            /\ timers' = timers \cup {nruns + 1}
            /\ poll_job' = nruns + 1
            /\ nruns' = nruns + 1
    /\ UNCHANGED <<engine, scoreVars, procVars, runnerVars, orchVars, log_queue, polling,
                   process, engproc>>

\* on_stop, called by the stop button
on_stop ==
    /\ polling = 0 /\ btn_run = "disabled" /\ StopRequests < MaxStops
    /\ IF ~running
       THEN UNCHANGED <<stop_flag, txt_log>>
       ELSE stop_flag' = TRUE /\ txt_log' = Append(txt_log, "StopRequested")
    /\ UNCHANGED <<engine, scoreVars, procVars, runnerVars, orchVars, running, log_queue,
                   poll_job, timers, polling, btn_run, process, thread, engproc, nruns>>

\* poll, first half: the pending callback of run c fires and empties the queue
\* into the log view
poll_drain(c) ==
    /\ polling = 0 /\ c \in timers
    /\ timers' = timers \ {c}
    /\ txt_log' = txt_log \o log_queue
    /\ log_queue' = <<>>
    /\ polling' = c
    /\ UNCHANGED <<engine, scoreVars, procVars, runnerVars, orchVars, running, stop_flag,
                   poll_job, btn_run, process, thread, engproc, nruns>>

\* poll, second half: if self.running: self.poll_job = self.after(100, poll)
poll_again ==
    /\ polling # 0
    /\ IF running
       THEN poll_job' = polling /\ timers' = timers \cup {polling}
       ELSE UNCHANGED <<poll_job, timers>>
    /\ polling' = 0
    /\ UNCHANGED <<engine, scoreVars, procVars, runnerVars, orchVars, running, stop_flag,
                   log_queue, txt_log, btn_run, process, thread, engproc, nruns>>

\* self.process = subprocess.Popen(...), or the exception branch
Popen(k, started) ==
    /\ thread[k] = "spawn"
    /\ IF started
       THEN /\ engproc' = [engproc EXCEPT ![k].st = "running"]
            /\ process' = k
            /\ thread' = [thread EXCEPT ![k] = "check"]
            /\ UNCHANGED log_queue
       ELSE /\ log_queue' = Append(log_queue, "LauncherError")
            /\ thread' = [thread EXCEPT ![k] = "fin1"]
            /\ UNCHANGED <<engproc, process>>
    /\ UNCHANGED <<engine, scoreVars, procVars, runnerVars, orchVars, running, stop_flag,
                   txt_log, poll_job, timers, polling, btn_run, nruns>>

\* if self.stop_flag.is_set(): terminate, kill, put "[Stopped]", break
check_stop(k) ==
    /\ thread[k] = "check"
    /\ IF stop_flag
       THEN /\ engproc' = [engproc EXCEPT ![process].st = "exited"]
            /\ log_queue' = Append(log_queue, "Stopped")
            /\ thread' = [thread EXCEPT ![k] = "after"]
       ELSE /\ thread' = [thread EXCEPT ![k] = "read"]
            /\ UNCHANGED <<engproc, log_queue>>
    /\ UNCHANGED <<engine, scoreVars, procVars, runnerVars, orchVars, running, stop_flag,
                   txt_log, poll_job, timers, polling, btn_run, process, nruns>>

\* line = self.process.stdout.readline(): a line, or "" at end of file; the
\* call blocks while the pipe is empty and the engine holds it open
readline(k) ==
    /\ thread[k] = "read"
    /\ IF engproc[process].pipe > 0
       THEN /\ engproc' = [engproc EXCEPT ![process].pipe = @ - 1]
            /\ log_queue' = Append(log_queue, "line")
            /\ thread' = [thread EXCEPT ![k] = "check"]
       ELSE /\ engproc[process].st = "exited"
            /\ thread' = [thread EXCEPT ![k] = "after"]
            /\ UNCHANGED <<engproc, log_queue>>
    /\ UNCHANGED <<engine, scoreVars, procVars, runnerVars, orchVars, running, stop_flag,
                   txt_log, poll_job, timers, polling, btn_run, process, nruns>>

\* rc = self.process.poll(); self.log_queue.put(f"[ExitCode] {rc}\n")
put_exit_code(k) ==
    /\ thread[k] = "after"
    /\ log_queue' = Append(log_queue, "ExitCode")
    /\ thread' = [thread EXCEPT ![k] = "fin1"]
    /\ UNCHANGED <<engine, scoreVars, procVars, runnerVars, orchVars, running, stop_flag,
                   txt_log, poll_job, timers, polling, btn_run, process, engproc, nruns>>

\* _finish_run: self.running = False
finish_running(k) ==
    /\ thread[k] = "fin1"
    /\ running' = FALSE
    /\ thread' = [thread EXCEPT ![k] = "fin2"]
    /\ UNCHANGED <<engine, scoreVars, procVars, runnerVars, orchVars, stop_flag, log_queue,
                   txt_log, poll_job, timers, polling, btn_run, process, engproc, nruns>>

\* _finish_run: self._toggle_controls(disabled=False), run by the main thread
\* for the runner thread
finish_controls(k) ==
    /\ thread[k] = "fin2" /\ polling = 0
    /\ btn_run' = "normal"
    /\ thread' = [thread EXCEPT ![k] = "fin3"]
    /\ UNCHANGED <<engine, scoreVars, procVars, runnerVars, orchVars, running, stop_flag,
                   log_queue, txt_log, poll_job, timers, polling, process, engproc, nruns>>

\* _finish_run: if self.poll_job: self.after_cancel(self.poll_job);
\* self.poll_job = None; the thread ends
finish_cancel(k) ==
    /\ thread[k] = "fin3" /\ polling = 0
    /\ timers' = timers \ {poll_job}
    /\ poll_job' = 0
    /\ thread' = [thread EXCEPT ![k] = "dead"]
    /\ UNCHANGED <<engine, scoreVars, procVars, runnerVars, orchVars, running, stop_flag,
                   log_queue, txt_log, polling, btn_run, process, engproc, nruns>>

\* the engine prints a line
EngineWrite(k) ==
    /\ engproc[k].st = "running" /\ engproc[k].written < MaxEngineLines
    /\ engproc' = [engproc EXCEPT ![k].written = @ + 1, ![k].pipe = @ + 1]
    /\ UNCHANGED <<engine, scoreVars, procVars, runnerVars, orchVars, running, stop_flag,
                   log_queue, txt_log, poll_job, timers, polling, btn_run, process, thread,
                   nruns>>

\* the engine exits by itself
EngineExit(k) ==
    /\ engproc[k].st = "running"
    /\ engproc' = [engproc EXCEPT ![k].st = "exited"]
    /\ UNCHANGED <<engine, scoreVars, procVars, runnerVars, orchVars, running, stop_flag,
                   log_queue, txt_log, poll_job, timers, polling, btn_run, process, thread,
                   nruns>>

\* a step of the runner thread of run k
ThreadStep(k) ==
    \/ \E started \in BOOLEAN : Popen(k, started)
    \/ check_stop(k)
    \/ readline(k)
    \/ put_exit_code(k)
    \/ finish_running(k)
    \/ finish_controls(k)
    \/ finish_cancel(k)

\* a step of the event loop that no user causes
PollStep == (\E c \in Runs : poll_drain(c)) \/ poll_again

GuiNext ==
    \/ \E valid \in BOOLEAN : on_run(valid)
    \/ on_stop
    \/ PollStep
    \/ \E k \in Runs : ThreadStep(k)
    \/ \E k \in Runs : EngineWrite(k)
    \/ \E k \in Runs : EngineExit(k)

GuiSpec == GuiInit /\ [][GuiNext]_vars

\* the threads and the event loop are scheduled; the user and the engine owe
\* nothing
FairGuiSpec == GuiSpec /\ (\A k \in Runs : WF_vars(ThreadStep(k))) /\ WF_vars(PollStep)

\* the runner threads that have started and not ended
ActiveThreads == {k \in DOMAIN thread : thread[k] \notin {"none", "dead"}}

LiveEngines == {k \in DOMAIN engproc : engproc[k].st = "running"}


\* C32 as stated: every line the runner thread puts on the log queue, the
\* final exit-code line included, is eventually appended to the log view,
\* whether or not the user starts another run.
C32_QueueReachesLog == (log_queue # <<>>) ~> (log_queue = <<>>)

\* C33 as stated: after a stop is requested while a run is in progress, the
\* engine subprocess is eventually terminated and the window is idle again,
\* whatever the engine does.
C33_StopTerminates == (running /\ stop_flag) ~> (~running /\ LiveEngines = {})

\* C34 as stated: at most one engine subprocess and one runner thread exist
\* at any time, and the running flag is true exactly while a runner thread is
\* active.
C34_OneRunAtATime ==
    /\ Cardinality(ActiveThreads) <= 1
    /\ Cardinality(LiveEngines) <= 1
    /\ running <=> ActiveThreads # {}

====
